---- MODULE Spec2Model ----
(***************************************************************************)
(* Cycle orchestrator of the single-position trading bot: runCycle, the    *)
(* Redis run lock and idempotency keys, openPosition, closePosition, the   *)
(* Firestore trade and run stores, and the trade state machine.            *)
(*                                                                         *)
(* Each invocation of runCycle is a process whose program counter sits at  *)
(* the await it is suspended on; one action is one collaborator call with  *)
(* the synchronous code that follows it up to the next await.  A           *)
(* collaborator call may reject (throw); a crash or a stall is an          *)
(* invocation that takes no further step.                                  *)
(***************************************************************************)
EXTENDS Integers, Sequences, FiniteSets

\* ---------------------------------------------------------------- bounds
\* number of runCycle invocations dispatched
MaxInv == 2
\* number of invocations dispatched while the configuration is disabled
MaxInvDisabled == 3
\* number of bar boundaries the clock passes through
MaxBar == 2
\* number of collaborator calls that reject
MaxFaults == 2
\* number of times the run lock's TTL elapses while its holder still runs
MaxExpire == 1
\* number of processes (each owns one RedisLockAdapter)
NumProcs == 2
\* config.risk.max_trades_per_day of the configuration in force
MaxTradesPerDay == 1

Inv == 1..(IF MaxInv > MaxInvDisabled THEN MaxInv ELSE MaxInvDisabled)
Bars == 1..MaxBar
\* trade ids: one per bar of the current UTC day, and 0 for a bar of an earlier day
TradeIds == 0..MaxBar
Procs == 1..NumProcs
None == 0 - 1
\* a value that is undefined (no price available)
Undefined == 0 - 1

\* ------------------------------------------------------ trade state machine
TRADE_STATE_VALUES ==
  <<"CREATED", "SUBMITTED", "CONFIRMED", "CLOSED", "FAILED", "CANCELED">>

TradeState == {TRADE_STATE_VALUES[k] : k \in 1..Len(TRADE_STATE_VALUES)}

ALLOWED_TRANSITIONS ==
  [s \in TradeState |->
     CASE s = "CREATED"   -> <<"SUBMITTED", "FAILED", "CANCELED">>
       [] s = "SUBMITTED" -> <<"CONFIRMED", "FAILED", "CANCELED">>
       [] s = "CONFIRMED" -> <<"SUBMITTED", "CLOSED", "FAILED", "CANCELED">>
       [] s = "CLOSED"    -> <<>>
       [] s = "FAILED"    -> <<>>
       [] s = "CANCELED"  -> <<>>]

\* (variant) any move forward in TRADE_STATE_VALUES is allowed
canTransitionForward(from, to) ==
  \E j, k \in 1..Len(TRADE_STATE_VALUES) :
     TRADE_STATE_VALUES[j] = from /\ TRADE_STATE_VALUES[k] = to /\ j < k

canTransitionTradeState(from, to) ==
  \E k \in 1..Len(ALLOWED_TRANSITIONS[from]) : ALLOWED_TRANSITIONS[from][k] = to

\* "ok" when the function returns, "throw" when it raises
assertTradeStateTransition(from, to) ==
  IF ~canTransitionTradeState(from, to) THEN "throw" ELSE "ok"

\* the transitions assertTradeStateTransition has raised on, as observed
Rejection(seen, from, to) ==
  IF assertTradeStateTransition(from, to) = "throw" THEN seen \cup {<<from, to>>} ELSE seen

\* the state writes made to the trades collection, as observed: the state the
\* document held and the state written over it
Written(seen, stored, nextState) == seen \cup {<<stored.state, nextState>>}

\* ------------------------------------------------------------------ state
VARIABLES
  now,              \* index of the last closed bar at the wall clock
  redisLock,        \* value of the Redis key lock:runner (None: absent)
  runnerLockToken,  \* RedisLockAdapter.runnerLockToken of each process
  idem,             \* bars whose entry idempotency key is set
  inflight,         \* tx:inflight:* keys, by the invocation that submitted
  trades,           \* the trades collection, by trade id (one per bar)
  runs,             \* the runs collection, by run id (one per invocation)
  pc,               \* where each invocation is suspended
  proc,             \* the process each invocation runs in
  run,              \* the RunRecord each invocation is building
  loc,              \* the locals of each invocation
  faults,           \* collaborator calls that have rejected so far
  expiries,         \* run-lock TTL expiries so far
  obs               \* observation of the run (history), read by the properties only

vars == <<now, redisLock, runnerLockToken, idem, inflight, trades, runs,
          pc, proc, run, loc, faults, expiries, obs>>

\* a document of the trades collection (state "NONE": no such document)
NoTrade == [state |-> "NONE", status |-> "NONE", close_reason |-> "NONE",
            created |-> 0, quantity |-> 0, entry_price |-> 0, stop_price |-> 0,
            take_profit_price |-> 0, exit_submission_state |-> "NONE"]

\* prices and quantities are counted in ticks of 10^-TickDecimals, so that the
\* digits roundTo drops exist
TickDecimals == 10

\* roundTo(value, decimals): Math.round(value * 10 ** decimals) / 10 ** decimals,
\* halves rounded up
roundTo(value, decimals) ==
  LET factor == 10 ^ (TickDecimals - decimals)
  IN ((2 * value + factor) \div (2 * factor)) * factor

\* 10^-6 USDC, the step of a stored price; 10^-9 SOL, the step of a stored
\* quantity and of an atomic amount
Micro == 10 ^ (TickDecimals - 6)
Lamport == 10 ^ (TickDecimals - 9)

\* max_loss_per_trade_pct is counted in steps of 10^-PctDecimals percent
PctDecimals == 1
Pct == 10 ^ PctDecimals

\* config/current as getCurrentConfig returns it when enabled
Config == [max_loss_per_trade_pct |-> 50 * Pct, take_profit_r_multiple |-> 2,
           ema_fast_period |-> 2, ema_slow_period |-> 3,
           swing_low_lookback_bars |-> 3, min_notional_usdc |-> 50]
NoConfig == [max_loss_per_trade_pct |-> 0, take_profit_r_multiple |-> 0,
             ema_fast_period |-> 0, ema_slow_period |-> 0,
             swing_low_lookback_bars |-> 0, min_notional_usdc |-> 0]

\* the Enter decision's prices (stop at the maximum loss of 50 %, R multiple 2:
\* 4 + (4 - 2) * 2)
Signal == [entry_price |-> 4 * Micro, stop_price |-> 2 * Micro,
           take_profit_price |-> 8 * Micro]

\* submission.result of submitSwap BUY_SOL_WITH_USDC: the entry price is
\* avg_fill_price ?? notionalUsdc / receivedSol, the quantity filled_base_sol ??
\* outAmountAtomic / SOL_ATOMIC_MULTIPLIER
NoSubmission == [avg_fill_price |-> 0, filled_base_sol |-> 0]
Submissions ==
  {[avg_fill_price |-> Signal.entry_price, filled_base_sol |-> q] : q \in {0, Lamport}}

RunInit == [result |-> "FAILED", summary |-> "run initialization",
            reason |-> "none", trade_id |-> None]

\* A window of closed bars as the strategy reads it: its length, its last
\* PULLBACK_LOOKBACK_BARS + 1 bars (low, close and the fast EMA at the bar;
\* Undefined: undefined or NaN) and the latest values of emaSeries(slow),
\* rsiSeries and atrSeries, which the indicator library computes.
NoBars == [length |-> 0, tail |-> <<>>, emaSlow |-> Undefined, rsi |-> Undefined,
           atr |-> Undefined]

\* closedBars.at(-1) of an empty array
NoBar == 0 - 2

\* statuses.value[0] of getSignatureStatuses when the signature is unknown
NullStatus == [err |-> FALSE, confirmationStatus |-> "null"]

\* the value of latestClosedBar (and of the bar the mark price is read from)
\* before fetchBars has returned
Unfetched == 0 - 3

\* locals of runCycle, openPosition and closePosition; trade is the in-memory
\* TradeRecord that openPosition builds or closePosition is handed
LocInit == [barCloseTime |-> None, bars |-> NoBars, decision |-> "NONE",
            decisionReason |-> "NONE",
            currentState |-> "NONE", confirmed |-> FALSE, closeReason |-> "NONE",
            failure |-> "NONE", trade |-> NoTrade, trade_id |-> None,
            markPrice |-> Undefined, markPriceBar |-> Unfetched,
            handed |-> NoTrade,
            config |-> NoConfig, submission |-> NoSubmission,
            previousPositionSnapshot |-> "NONE", previousCloseReason |-> "NONE",
            latestClosedBar |-> Unfetched,
            fn |-> "NONE", args |-> <<>>, result |-> Undefined,
            startedAt |-> None, status |-> NullStatus]

ObsInit == [evals     |-> [b \in Bars |-> 0],
            opens     |-> [b \in Bars |-> 0],
            creates   |-> [b \in Bars |-> 0],
            buys      |-> [b \in Bars |-> 0],
            sells     |-> [b \in TradeIds |-> 0],
            saveCalls |-> [i \in Inv |-> 0],
            saved     |-> [i \in Inv |-> 0],
            acquired  |-> {},
            released  |-> {},
            elapsed   |-> {},
            raised    |-> [i \in Inv |-> "none"],
            markedAtStart |-> {},
            judged    |-> {},
            creators  |-> {},
            rejected  |-> {},
            sellers   |-> {},
            openers   |-> {},
            noSignal  |-> {},
            markFailed |-> {},
            afterNoSignal |-> {},
            writes    |-> {}]

\* everything but the trades collection
InitRest ==
  /\ now = 1
  /\ redisLock = None
  /\ runnerLockToken = [p \in Procs |-> None]
  /\ idem = {}
  /\ inflight = {}
  /\ runs = [i \in Inv |-> "none"]
  /\ pc = [i \in Inv |-> "idle"]
  /\ proc = [i \in Inv |-> 1]
  /\ run = [i \in Inv |-> RunInit]
  /\ loc = [i \in Inv |-> LocInit]
  /\ faults = 0
  /\ expiries = 0
  /\ obs = ObsInit

\* the bot starts on an empty trades collection
Init ==
  /\ InitRest
  /\ trades = [t \in TradeIds |-> NoTrade]

\* the position openPosition confirmed on a bar of an earlier day
OpenedEarlier ==
  [NoTrade EXCEPT !.state = "CONFIRMED", !.status = "OPEN", !.quantity = Lamport,
                  !.entry_price = Signal.entry_price,
                  !.stop_price = Signal.stop_price,
                  !.take_profit_price = Signal.take_profit_price,
                  !.created = 1]

\* the bot (re)starts while that position is open
InitOpen ==
  /\ InitRest
  /\ trades = [t \in TradeIds |-> IF t = 0 THEN OpenedEarlier ELSE NoTrade]

\* ------------------------------------------------------------ conventions
\* a collaborator call rejects / resolves
Throws == faults < MaxFaults /\ faults' = faults + 1
Returns == faults' = faults

Goto(i, label) == pc' = [pc EXCEPT ![i] = label]

\* runCycle leaves its try block with this result; the finally block follows
Finish(i, result, summary, reason) ==
  /\ run' = [run EXCEPT ![i] = [@ EXCEPT !.result = result, !.summary = summary,
                                         !.reason = reason]]
  /\ Goto(i, "saveRun")

\* (variant) a catch block that leaves run.reason unset
CatchUnhandledNoReason(i) ==
  /\ Finish(i, "FAILED", "unhandled run_cycle error", run[i].reason)
  /\ obs' = [obs EXCEPT !.raised[i] = "steps"]

\* the catch block of runCycle
CatchUnhandled(i) ==
  /\ Finish(i, "FAILED", "unhandled run_cycle error", "ERR")
  /\ obs' = [obs EXCEPT !.raised[i] = "steps"]

\* the exception leaves runCycle
Propagate(i) == Goto(i, "threw")

\* the locals of an invocation that has left its try block are dead
Forget(i) == loc' = [loc EXCEPT ![i] = LocInit]

\* ------------------------------------------------------------ environment
\* the TTL of lock:runner elapses (EX ttlSeconds) and Redis drops the key
ExpireRunnerLock ==
  /\ redisLock # None
  /\ expiries < MaxExpire
  /\ expiries' = expiries + 1
  /\ redisLock' = None
  /\ obs' = [obs EXCEPT !.elapsed = @ \cup {redisLock}]
  /\ UNCHANGED <<now, runnerLockToken, idem, inflight, trades, runs,
                 pc, proc, run, loc, faults>>

\* ------------------------------------------------------------- runCycle
\* the scheduler (of the first process or of another) dispatches the next
\* invocation; runAt is read here, after zero or more further bars have closed,
\* and the bar boundary is resolved from it (getLastClosedBarClose)
Start(i) ==
  /\ pc[i] = "idle"
  /\ IF i = 1 THEN TRUE ELSE pc[i - 1] # "idle"
  /\ \E p \in Procs : p <= i /\ proc' = [proc EXCEPT ![i] = p]
  /\ \E runAt \in now..MaxBar :
       /\ now' = runAt
       /\ loc' = [loc EXCEPT ![i].barCloseTime = runAt]
       /\ obs' = [obs EXCEPT !.markedAtStart = IF runAt \in idem THEN @ \cup {i} ELSE @,
                             !.afterNoSignal =
                               IF \E j \in Inv : <<runAt, j>> \in obs.noSignal /\ pc[j] = "done"
                                 THEN @ \cup {i} ELSE @]
  /\ Goto(i, "acquire")
  /\ UNCHANGED <<redisLock, runnerLockToken, idem, inflight, trades, runs,
                 run, faults, expiries>>

\* (variant) an acquire that keeps its token whatever SET answered
acquireRunnerLockKeepingToken(i) ==
  IF redisLock = None
    THEN /\ redisLock' = i
         /\ runnerLockToken' = [runnerLockToken EXCEPT ![proc[i]] = i]
         /\ obs' = [obs EXCEPT !.acquired = @ \cup {i}]
         /\ Goto(i, "getConfig")
         /\ UNCHANGED run
    ELSE /\ run' = [run EXCEPT ![i] = [@ EXCEPT !.result = "SKIPPED",
                                               !.summary = "lock:runner already acquired"]]
         /\ runnerLockToken' = [runnerLockToken EXCEPT ![proc[i]] = i]
         /\ Goto(i, "saveSkipped")
         /\ UNCHANGED <<redisLock, obs>>

\* RedisLockAdapter.acquireRunnerLock: SET lock:runner token NX EX ttl
acquireRunnerLock(i) ==
  IF redisLock = None
    THEN /\ redisLock' = i
         /\ runnerLockToken' = [runnerLockToken EXCEPT ![proc[i]] = i]
         /\ obs' = [obs EXCEPT !.acquired = @ \cup {i}]
         /\ Goto(i, "getConfig")
         /\ UNCHANGED run
    ELSE /\ run' = [run EXCEPT ![i] = [@ EXCEPT !.result = "SKIPPED",
                                               !.summary = "lock:runner already acquired"]]
         /\ Goto(i, "saveSkipped")
         /\ UNCHANGED <<redisLock, runnerLockToken, obs>>

\* runCycle, the lock step (outside the try block)
AcquireLock(i) ==
  /\ pc[i] = "acquire"
  /\ \/ /\ Throws
        /\ Propagate(i)
        /\ UNCHANGED <<redisLock, runnerLockToken, run, obs>>
     \/ /\ Returns
        /\ acquireRunnerLock(i)
  /\ UNCHANGED <<now, idem, inflight, trades, runs, proc, loc, expiries>>

\* sanitizeFirestoreValue on a RunRecord: the entries whose value is undefined
\* (reason "none", trade_id None) are left out
sanitizeFirestoreValue(value) ==
  LET defined == {k \in DOMAIN value :
                    /\ ~(k = "reason" /\ value[k] = "none")
                    /\ ~(k = "trade_id" /\ value[k] = None)}
  IN [k \in defined |-> value[k]]

\* (variant) a write that resets a document it finds
saveRunCreateOnly(i) ==
  /\ runs' = [runs EXCEPT ![i] = IF obs.saved[i] = 0
                                   THEN sanitizeFirestoreValue(run[i])
                                   ELSE sanitizeFirestoreValue(RunInit)]
  /\ obs' = [obs EXCEPT !.saveCalls[i] = @ + 1, !.saved[i] = @ + 1]

\* FirestoreRepository.saveRun: set() of the document runs/{run_id}, which
\* replaces the document; the run ids of two invocations differ (buildRunId:
\* the bar and the millisecond of the start)
saveRun(i) ==
  /\ runs' = [runs EXCEPT ![i] = sanitizeFirestoreValue(run[i])]
  /\ obs' = [obs EXCEPT !.saveCalls[i] = @ + 1, !.saved[i] = @ + 1]

saveRunRejected(i) ==
  /\ runs' = runs
  /\ obs' = [obs EXCEPT !.saveCalls[i] = @ + 1]

\* runCycle, lock not acquired: saveRun outside the try block, then return
SaveSkipped(i) ==
  /\ pc[i] = "saveSkipped"
  /\ \/ /\ Throws
        /\ saveRunRejected(i)
        /\ Propagate(i)
     \/ /\ Returns
        /\ saveRun(i)
        /\ Goto(i, "done")
  /\ Forget(i)
  /\ UNCHANGED <<now, redisLock, runnerLockToken, idem, inflight, trades,
                 proc, run, expiries>>

\* (variant) the finally block without the try/catch around saveRun
SaveRunFinallyUncaught(i) ==
  /\ pc[i] = "saveRun"
  /\ \/ /\ Throws
        /\ saveRunRejected(i)
        /\ Propagate(i)
     \/ /\ Returns
        /\ saveRun(i)
        /\ Goto(i, "release")
  /\ Forget(i)
  /\ UNCHANGED <<now, redisLock, runnerLockToken, idem, inflight, trades,
                 proc, run, expiries>>

\* runCycle, the finally block: saveRun in its own try/catch, then the release
SaveRunFinally(i) ==
  /\ pc[i] = "saveRun"
  /\ \/ /\ Throws
        /\ saveRunRejected(i)
     \/ /\ Returns
        /\ saveRun(i)
  /\ Goto(i, "release")
  /\ Forget(i)
  /\ UNCHANGED <<now, redisLock, runnerLockToken, idem, inflight, trades,
                 proc, run, expiries>>

\* RedisLockAdapter.releaseRunnerLock up to the GET: no token, nothing to do;
\* else GET lock:runner and compare it with the adapter's token
ReleaseGet(i) ==
  /\ pc[i] = "release"
  /\ \/ /\ runnerLockToken[proc[i]] = None
        /\ Returns
        /\ Goto(i, "done")
        /\ UNCHANGED runnerLockToken
     \/ /\ runnerLockToken[proc[i]] # None
        /\ Throws
        /\ Propagate(i)
        /\ UNCHANGED runnerLockToken
     \/ /\ runnerLockToken[proc[i]] # None
        /\ Returns
        /\ IF redisLock = runnerLockToken[proc[i]]
             THEN Goto(i, "releaseDel") /\ UNCHANGED runnerLockToken
             ELSE /\ runnerLockToken' = [runnerLockToken EXCEPT ![proc[i]] = None]
                  /\ Goto(i, "done")
  /\ obs' = [obs EXCEPT !.released = @ \cup {i}]
  /\ UNCHANGED <<now, redisLock, idem, inflight, trades, runs,
                 proc, run, loc, expiries>>

\* RedisLockAdapter.releaseRunnerLock, the DEL that follows a matching GET
ReleaseDel(i) ==
  /\ pc[i] = "releaseDel"
  /\ \/ /\ Throws
        /\ Propagate(i)
        /\ UNCHANGED <<redisLock, runnerLockToken>>
     \/ /\ Returns
        /\ redisLock' = None
        /\ runnerLockToken' = [runnerLockToken EXCEPT ![proc[i]] = None]
        /\ Goto(i, "done")
  /\ UNCHANGED <<now, idem, inflight, trades, runs, proc, run, loc, expiries, obs>>

\* ----------------------------------------------------- runCycle, try block
\* persistence.getCurrentConfig; the enable flag is read per invocation
GetConfig(i) ==
  /\ pc[i] = "getConfig"
  /\ \/ /\ Throws
        /\ CatchUnhandled(i)
        /\ UNCHANGED loc
     \/ /\ Returns
        /\ \E enabled \in BOOLEAN :
             IF ~enabled
               THEN /\ Finish(i, "SKIPPED", "config/current.enabled is false", "none")
                    /\ UNCHANGED loc
               ELSE /\ Goto(i, "findOpenTrade")
                    /\ loc' = [loc EXCEPT ![i].config = Config]
                    /\ UNCHANGED run
        /\ UNCHANGED obs
  /\ UNCHANGED <<now, redisLock, runnerLockToken, idem, inflight, trades, runs,
                 proc, expiries>>

\* FirestoreRepository.findOpenTrade: the CONFIRMED trade created last
findOpenTrade ==
  LET candidates == {b \in TradeIds : trades[b].state = "CONFIRMED"}
  IN IF candidates = {} THEN None
     ELSE CHOOSE b \in candidates :
            \A c \in candidates : trades[c].created <= trades[b].created

\* (variant) the bar's key tested first, as run4hCycle does: a marked bar ends
\* the invocation before the open trade is looked up
FindOpenTradeAfterKey(i) ==
  /\ pc[i] = "findOpenTrade"
  /\ Returns
  /\ IF loc[i].barCloseTime \in idem
       THEN /\ Finish(i, "SKIPPED_ENTRY", "entry already evaluated for this bar", "none")
            /\ UNCHANGED loc
       ELSE LET openTrade == findOpenTrade
            IN IF openTrade # None
                 THEN /\ loc' = [loc EXCEPT ![i].trade_id = openTrade,
                                            ![i].trade = trades[openTrade]]
                      /\ run' = [run EXCEPT ![i].trade_id = openTrade]
                      /\ Goto(i, "markPrice")
                 ELSE /\ Goto(i, "hasEntryAttempt")
                      /\ UNCHANGED <<loc, run>>
  /\ UNCHANGED <<now, redisLock, runnerLockToken, idem, inflight, trades, runs,
                 proc, expiries, obs>>

FindOpenTrade(i) ==
  /\ pc[i] = "findOpenTrade"
  /\ \/ /\ Throws
        /\ CatchUnhandled(i)
        /\ UNCHANGED loc
     \/ /\ Returns
        /\ LET openTrade == findOpenTrade
           IN IF openTrade # None
                THEN /\ loc' = [loc EXCEPT ![i].trade_id = openTrade,
                                           ![i].trade = trades[openTrade]]
                     /\ run' = [run EXCEPT ![i].trade_id = openTrade]
                     /\ Goto(i, "markPrice")
                ELSE /\ Goto(i, "hasEntryAttempt")
                     /\ UNCHANGED <<loc, run>>
        /\ UNCHANGED obs
  /\ UNCHANGED <<now, redisLock, runnerLockToken, idem, inflight, trades, runs,
                 proc, expiries>>

\* highest price the market is observed at
MaxPrice == 9

\* (variant) the triggers compared strictly
triggerReasonStrict(markPrice, position) ==
  IF markPrice > position.take_profit_price THEN "TAKE_PROFIT"
  ELSE IF markPrice < position.stop_price THEN "STOP_LOSS"
  ELSE "NONE"

triggerReason(markPrice, position) ==
  IF markPrice >= position.take_profit_price THEN "TAKE_PROFIT"
  ELSE IF markPrice <= position.stop_price THEN "STOP_LOSS"
  ELSE "NONE"

\* what fetchBars(pair, timeframe, 1) can return: no bar, or the one most
\* recent bar the exchange lists, closed or still forming (close times as in
\* FetchedWindows, which is defined with the entry path's fetch)
LastBars(barCloseTime) ==
  {{}} \cup {{t} : t \in {barCloseTime - 1, barCloseTime, barCloseTime + 1}}

\* (await marketData.fetchBars(config.pair, timeframe, 1)).at(-1)
lastBar(bars) ==
  IF bars = {} THEN NoBar ELSE CHOOSE t \in bars : TRUE

\* the mark price (execution.getMarkPrice, else the last bar's close) and the
\* exit decision
MarkPrice(i) ==
  /\ pc[i] = "markPrice"
  /\ \/ /\ Throws
        /\ CatchUnhandled(i)
        /\ UNCHANGED loc
     \/ /\ Returns
        /\ \E markPriceFromExecution \in {Undefined} \cup {p * Micro : p \in 1..MaxPrice} :
           \E bars \in IF markPriceFromExecution = Undefined
                         THEN LastBars(loc[i].barCloseTime) ELSE {{}},
              close \in IF markPriceFromExecution = Undefined
                          THEN {p * Micro : p \in 1..MaxPrice} ELSE {Undefined} :
             LET bar == IF markPriceFromExecution # Undefined THEN Unfetched
                        ELSE lastBar(bars)
                 markPriceFromBars == IF bar \in {Unfetched, NoBar} THEN Undefined
                                      ELSE close
                 markPrice == IF markPriceFromExecution # Undefined
                                THEN markPriceFromExecution ELSE markPriceFromBars
                 reason == triggerReason(markPrice, loc[i].trade)
             IN IF markPrice = Undefined
                  THEN Finish(i, "FAILED", "no mark price available", "none")
                       /\ loc' = [loc EXCEPT ![i].markPriceBar = bar]
                ELSE IF reason = "NONE"
                  THEN Finish(i, "HOLD", "open position exists and no exit trigger fired", "none")
                       /\ loc' = [loc EXCEPT ![i].markPrice = markPrice,
                                             ![i].markPriceBar = bar]
                ELSE /\ loc' = [loc EXCEPT ![i].markPrice = markPrice,
                                           ![i].markPriceBar = bar,
                                           ![i].handed = loc[i].trade,
                                           ![i].closeReason = reason,
                                           ![i].currentState = loc[i].trade.state]
                     /\ Goto(i, "closeSubmit")
                     /\ UNCHANGED run
        /\ UNCHANGED obs
  /\ UNCHANGED <<now, redisLock, runnerLockToken, idem, inflight, trades, runs,
                 proc, expiries>>

\* ------------------------------------------------------------ closePosition
\* the exception is caught by closePosition's own catch block
CloseCaught(i) ==
  /\ Goto(i, "closeCatch")
  /\ obs' = [obs EXCEPT !.raised[i] = "inner"]

\* what closePosition's moveState hands to updateTrade (set with merge):
\* state, execution, position, and close_reason unless it is undefined
closeMoveStateUpdate(stored, trade, nextState) ==
  [stored EXCEPT !.state = nextState,
                 !.status = trade.status,
                 !.quantity = trade.quantity,
                 !.entry_price = trade.entry_price,
                 !.stop_price = trade.stop_price,
                 !.take_profit_price = trade.take_profit_price,
                 !.exit_submission_state = trade.exit_submission_state,
                 !.close_reason = IF trade.close_reason = "NONE" THEN @ ELSE trade.close_reason]

\* closePosition from its entry to submitSwap SELL_SOL_FOR_USDC, on a trade
\* that passes the guards; closePosition is handed closePrice only, the bar the
\* price was read from stays behind in runCycle (markPriceBar is dropped)
closeSubmitSwap(i) ==
  \/ /\ Throws
     /\ CloseCaught(i)
     /\ loc' = [loc EXCEPT ![i].markPriceBar = Unfetched]
     /\ UNCHANGED <<trades, run>>
  \/ /\ Returns
     /\ obs' = [obs EXCEPT !.sells[loc[i].trade_id] = @ + 1,
                           !.sellers = @ \cup {i}]
     /\ loc' = [loc EXCEPT ![i].trade.exit_submission_state = "SUBMITTED",
                           ![i].markPriceBar = Unfetched]
     /\ Goto(i, "closeRecord")
     /\ UNCHANGED <<trades, run>>

\* closePosition on a position of quantity 0: moveState('FAILED') outside the
\* try block, then return FAILED
closeZeroQuantity(i) ==
  LET failed == [loc[i].trade EXCEPT !.exit_submission_state = "FAILED"]
  IN \/ /\ Throws
        /\ loc' = [loc EXCEPT ![i].trade = failed,
                              ![i].markPriceBar = Unfetched]
        /\ CatchUnhandled(i)
        /\ UNCHANGED trades
     \/ /\ Returns
        /\ trades' = [trades EXCEPT ![loc[i].trade_id] =
                         closeMoveStateUpdate(@, failed, "FAILED")]
        /\ loc' = [loc EXCEPT ![i].trade = [failed EXCEPT !.state = "FAILED"],
                              ![i].currentState = "FAILED",
                              ![i].markPriceBar = Unfetched]
        /\ obs' = [obs EXCEPT !.writes = Written(@, trades[loc[i].trade_id], "FAILED")]
        /\ Finish(i, "FAILED", "position quantity is 0", "none")

\* (variant) closePosition without the guard on trade.state
CloseSubmitUnguarded(i) ==
  /\ pc[i] = "closeSubmit"
  /\ IF loc[i].trade.quantity \div Lamport <= 0
       THEN closeZeroQuantity(i)
       ELSE closeSubmitSwap(i)
  /\ UNCHANGED <<now, redisLock, runnerLockToken, idem, inflight, runs,
                 proc, expiries>>

\* closePosition: the guard on trade.state, the guard on the quantity, then
\* submitSwap
CloseSubmit(i) ==
  /\ pc[i] = "closeSubmit"
  /\ IF loc[i].trade.state # "CONFIRMED"
       THEN /\ Returns
            /\ Finish(i, "FAILED", "trade state is not CONFIRMED", "none")
            /\ loc' = [loc EXCEPT ![i].markPriceBar = Unfetched]
            /\ UNCHANGED <<trades, obs>>
       ELSE IF loc[i].trade.quantity \div Lamport <= 0
         THEN closeZeroQuantity(i)
         ELSE closeSubmitSwap(i)
  /\ UNCHANGED <<now, redisLock, runnerLockToken, idem, inflight, runs,
                 proc, expiries>>

\* (variant) the exit signature recorded with moveState('SUBMITTED'), which
\* writes the state as well
CloseRecordMoveState(i) ==
  /\ pc[i] = "closeRecord"
  /\ \/ /\ Throws
        /\ CloseCaught(i)
        /\ UNCHANGED <<trades, loc>>
     \/ /\ Returns
        /\ trades' = [trades EXCEPT ![loc[i].trade_id] =
                         closeMoveStateUpdate(@, loc[i].trade, "SUBMITTED")]
        /\ loc' = [loc EXCEPT ![i].currentState = "SUBMITTED",
                              ![i].trade.state = "SUBMITTED"]
        /\ Goto(i, "closeSetInflight")
        /\ UNCHANGED obs
  /\ UNCHANGED <<now, redisLock, runnerLockToken, idem, inflight, runs,
                 proc, run, expiries>>

\* closePosition: updateTrade({execution, updated_at}) records the exit signature
CloseRecord(i) ==
  /\ pc[i] = "closeRecord"
  /\ \/ /\ Throws
        /\ CloseCaught(i)
        /\ UNCHANGED trades
     \/ /\ Returns
        /\ trades' = [trades EXCEPT ![loc[i].trade_id].exit_submission_state =
                                      loc[i].trade.exit_submission_state]
        /\ Goto(i, "closeSetInflight")
        /\ UNCHANGED obs
  /\ UNCHANGED <<now, redisLock, runnerLockToken, idem, inflight, runs,
                 proc, run, loc, expiries>>

\* closePosition: lock.setInflightTx(submission.txSignature)
CloseSetInflight(i) ==
  /\ pc[i] = "closeSetInflight"
  /\ \/ /\ Throws
        /\ CloseCaught(i)
        /\ UNCHANGED inflight
     \/ /\ Returns
        /\ inflight' = inflight \cup {i}
        /\ Goto(i, "closeConfirm")
        /\ UNCHANGED obs
  /\ UNCHANGED <<now, redisLock, runnerLockToken, idem, trades, runs,
                 proc, run, loc, expiries>>

\* closePosition: execution.confirmSwap(txSignature, TX_CONFIRM_TIMEOUT_MS)
CloseConfirm(i) ==
  /\ pc[i] = "closeConfirm"
  /\ \/ /\ Throws
        /\ CloseCaught(i)
        /\ UNCHANGED loc
     \/ /\ Returns
        /\ \E confirmed \in BOOLEAN : loc' = [loc EXCEPT ![i].confirmed = confirmed]
        /\ Goto(i, "closeClearInflight")
        /\ UNCHANGED obs
  /\ UNCHANGED <<now, redisLock, runnerLockToken, idem, inflight, trades, runs,
                 proc, run, expiries>>

\* closePosition: lock.clearInflightTx, then the branch on confirmation.confirmed
\* and the in-memory snapshot of the closed position
CloseClearInflight(i) ==
  /\ pc[i] = "closeClearInflight"
  /\ \/ /\ Throws
        /\ CloseCaught(i)
        /\ UNCHANGED <<inflight, loc>>
     \/ /\ Returns
        /\ inflight' = inflight \ {i}
        /\ IF ~loc[i].confirmed
             THEN /\ loc' = [loc EXCEPT ![i].trade.exit_submission_state = "FAILED"]
                  /\ Goto(i, "closeNotConfirmed")
             ELSE /\ loc' = [loc EXCEPT ![i].previousPositionSnapshot = loc[i].trade.status,
                                        ![i].previousCloseReason = loc[i].trade.close_reason,
                                        ![i].trade.exit_submission_state = "CONFIRMED",
                                        ![i].trade.status = "CLOSED",
                                        ![i].trade.close_reason = loc[i].closeReason]
                  /\ Goto(i, "closeCommit")
        /\ UNCHANGED obs
  /\ UNCHANGED <<now, redisLock, runnerLockToken, idem, trades, runs,
                 proc, run, expiries>>

\* closePosition: moveState('FAILED') after an unconfirmed exit, return FAILED
CloseNotConfirmed(i) ==
  /\ pc[i] = "closeNotConfirmed"
  /\ LET verdict == assertTradeStateTransition(loc[i].currentState, "FAILED")
     IN \/ /\ Throws
           /\ verdict = "ok"
           /\ Goto(i, "closeCatch")
           /\ obs' = [obs EXCEPT !.raised[i] = "inner",
                                 !.rejected = Rejection(@, loc[i].currentState, "FAILED")]
           /\ UNCHANGED <<trades, loc, run>>
        \/ /\ Returns
           /\ obs' = [obs EXCEPT !.rejected = Rejection(@, loc[i].currentState, "FAILED"),
                                 !.raised[i] = IF verdict = "ok" THEN @ ELSE "inner",
                                 !.writes = IF verdict = "ok"
                                              THEN Written(@, trades[loc[i].trade_id], "FAILED")
                                              ELSE @]
           /\ IF verdict = "ok"
                THEN /\ trades' = [trades EXCEPT ![loc[i].trade_id] =
                                      closeMoveStateUpdate(@, loc[i].trade, "FAILED")]
                     /\ loc' = [loc EXCEPT ![i].currentState = "FAILED",
                                           ![i].trade.state = "FAILED"]
                     /\ Finish(i, "FAILED", "exit tx not confirmed", "none")
                ELSE /\ Goto(i, "closeCatch")
                     /\ UNCHANGED <<trades, loc, run>>
  /\ UNCHANGED <<now, redisLock, runnerLockToken, idem, inflight, runs,
                 proc, expiries>>

\* (variant) moveState('CLOSED') whose failure is rethrown with the in-memory
\* position and close reason left as the commit set them
CloseCommitNoRestore(i) ==
  /\ pc[i] = "closeCommit"
  /\ LET verdict == assertTradeStateTransition(loc[i].currentState, "CLOSED")
     IN \/ /\ Throws
           /\ verdict = "ok"
           /\ UNCHANGED loc
           /\ Goto(i, "closeCatch")
           /\ obs' = [obs EXCEPT !.raised[i] = "inner",
                                 !.rejected = Rejection(@, loc[i].currentState, "CLOSED")]
           /\ UNCHANGED <<trades, run>>
        \/ /\ Returns
           /\ obs' = [obs EXCEPT !.rejected = Rejection(@, loc[i].currentState, "CLOSED"),
                                 !.raised[i] = IF verdict = "ok" THEN @ ELSE "inner",
                                 !.writes = IF verdict = "ok"
                                              THEN Written(@, trades[loc[i].trade_id], "CLOSED")
                                              ELSE @]
           /\ IF verdict = "ok"
                THEN /\ trades' = [trades EXCEPT ![loc[i].trade_id] =
                                      closeMoveStateUpdate(@, loc[i].trade, "CLOSED")]
                     /\ loc' = [loc EXCEPT ![i].currentState = "CLOSED",
                                           ![i].trade.state = "CLOSED"]
                     /\ Finish(i, "CLOSED", "CLOSED: reason, tx, fill, trigger", "none")
                ELSE /\ UNCHANGED loc
                     /\ Goto(i, "closeCatch")
                     /\ UNCHANGED <<trades, run>>
  /\ UNCHANGED <<now, redisLock, runnerLockToken, idem, inflight, runs,
                 proc, expiries>>

\* closePosition: moveState('CLOSED'); a failed commit restores the in-memory
\* position snapshot and close reason before it is rethrown
CloseCommit(i) ==
  /\ pc[i] = "closeCommit"
  /\ LET verdict == assertTradeStateTransition(loc[i].currentState, "CLOSED")
     IN \/ /\ Throws
           /\ verdict = "ok"
           /\ loc' = [loc EXCEPT ![i].trade.status = loc[i].previousPositionSnapshot,
                                 ![i].trade.close_reason = loc[i].previousCloseReason]
           /\ Goto(i, "closeCatch")
           /\ obs' = [obs EXCEPT !.raised[i] = "inner",
                                 !.rejected = Rejection(@, loc[i].currentState, "CLOSED")]
           /\ UNCHANGED <<trades, run>>
        \/ /\ Returns
           /\ obs' = [obs EXCEPT !.rejected = Rejection(@, loc[i].currentState, "CLOSED"),
                                 !.raised[i] = IF verdict = "ok" THEN @ ELSE "inner",
                                 !.writes = IF verdict = "ok"
                                              THEN Written(@, trades[loc[i].trade_id], "CLOSED")
                                              ELSE @]
           /\ IF verdict = "ok"
                THEN /\ trades' = [trades EXCEPT ![loc[i].trade_id] =
                                      closeMoveStateUpdate(@, loc[i].trade, "CLOSED")]
                     /\ loc' = [loc EXCEPT ![i].currentState = "CLOSED",
                                           ![i].trade.state = "CLOSED"]
                     /\ Finish(i, "CLOSED", "CLOSED: reason, tx, fill, trigger", "none")
                ELSE /\ loc' = [loc EXCEPT ![i].trade.status = loc[i].previousPositionSnapshot,
                                           ![i].trade.close_reason = loc[i].previousCloseReason]
                     /\ Goto(i, "closeCatch")
                     /\ UNCHANGED <<trades, run>>
  /\ UNCHANGED <<now, redisLock, runnerLockToken, idem, inflight, runs,
                 proc, expiries>>

\* closePosition, the catch block: moveState('FAILED') in its own try/catch,
\* then return FAILED with the error message in the summary
CloseCatch(i) ==
  /\ pc[i] = "closeCatch"
  /\ LET verdict == assertTradeStateTransition(loc[i].currentState, "FAILED")
         failed == [loc[i].trade EXCEPT !.exit_submission_state = "FAILED"]
         seen == [obs EXCEPT !.rejected = Rejection(@, loc[i].currentState, "FAILED")]
     IN \/ /\ Throws
           /\ verdict = "ok"
           /\ loc' = [loc EXCEPT ![i].trade = failed]
           /\ obs' = seen
           /\ UNCHANGED trades
        \/ /\ Returns
           /\ IF verdict = "ok"
                THEN /\ trades' = [trades EXCEPT ![loc[i].trade_id] =
                                      closeMoveStateUpdate(@, failed, "FAILED")]
                     /\ loc' = [loc EXCEPT ![i].trade = [failed EXCEPT !.state = "FAILED"],
                                           ![i].currentState = "FAILED"]
                     /\ obs' = [seen EXCEPT !.writes =
                                   Written(@, trades[loc[i].trade_id], "FAILED")]
                ELSE /\ loc' = [loc EXCEPT ![i].trade = failed]
                     /\ obs' = seen
                     /\ UNCHANGED trades
  /\ Finish(i, "FAILED", "FAILED: errorMessage", "none")
  /\ UNCHANGED <<now, redisLock, runnerLockToken, idem, inflight, runs,
                 proc, expiries>>

\* ------------------------------------------------ runCycle, the entry path
\* lock.hasEntryAttempt(barCloseTimeIso): is the bar's idempotency key set
hasEntryAttempt(bar) == bar \in idem

\* (variant) runCycle without the early return on an already judged bar
HasEntryAttemptNoReturn(i) ==
  /\ pc[i] = "hasEntryAttempt"
  /\ \/ /\ Throws
        /\ CatchUnhandled(i)
     \/ /\ Returns
        /\ obs' = [obs EXCEPT !.judged = @ \cup {i}]
        /\ Goto(i, "fetchBars")
        /\ UNCHANGED run
  /\ UNCHANGED <<now, redisLock, runnerLockToken, idem, inflight, trades, runs,
                 proc, loc, expiries>>

\* runCycle: a bar whose entry was already judged is SKIPPED_ENTRY
\* (variant) the key tested and set in one step before the evaluation, as
\* run4hCycle does with markBarProcessed
HasEntryAttemptMarking(i) ==
  /\ pc[i] = "hasEntryAttempt"
  /\ Returns
  /\ obs' = [obs EXCEPT !.judged = @ \cup {i}]
  /\ idem' = idem \cup {loc[i].barCloseTime}
  /\ IF hasEntryAttempt(loc[i].barCloseTime)
       THEN Finish(i, "SKIPPED_ENTRY", "entry already evaluated for this bar", "none")
       ELSE Goto(i, "fetchBars") /\ UNCHANGED run
  /\ UNCHANGED <<now, redisLock, runnerLockToken, inflight, trades, runs,
                 proc, loc, expiries>>

HasEntryAttempt(i) ==
  /\ pc[i] = "hasEntryAttempt"
  /\ \/ /\ Throws
        /\ CatchUnhandled(i)
     \/ /\ Returns
        /\ obs' = [obs EXCEPT !.judged = @ \cup {i}]
        /\ IF hasEntryAttempt(loc[i].barCloseTime)
             THEN Finish(i, "SKIPPED_ENTRY", "entry already evaluated for this bar", "none")
             ELSE Goto(i, "fetchBars") /\ UNCHANGED run
  /\ UNCHANGED <<now, redisLock, runnerLockToken, idem, inflight, trades, runs,
                 proc, loc, expiries>>

\* marketData.fetchBars, the filter to closed bars and the alignment check.
\* latest: the close time of the last closed bar against the resolved boundary;
\* shape: what the window of closes looks like to the strategy
\* ------------------------------------------------- risk (swing_low_stop.ts)
SetMin(S) == CHOOSE x \in S : \A y \in S : x <= y
SetMax(S) == CHOOSE x \in S : \A y \in S : y <= x

\* the functions raise on the inputs the ...Throws predicates name
calculateSwingLowThrows(lows, lookbackBars) ==
  lookbackBars <= 0 \/ Len(lows) < lookbackBars

\* (variant) the lowest of all the lows
calculateSwingLowOfAll(lows, lookbackBars) ==
  SetMin({lows[k] : k \in 1..Len(lows)})

\* Math.min(...lows.slice(-lookbackBars))
calculateSwingLow(lows, lookbackBars) ==
  SetMin({lows[k] : k \in (Len(lows) - lookbackBars + 1)..Len(lows)})

calculateMaxLossStopPriceThrows(entryPrice, maxLossPct) ==
  entryPrice <= 0 \/ maxLossPct <= 0

calculateMaxLossStopPrice(entryPrice, maxLossPct) ==
  (entryPrice * (100 * Pct - maxLossPct)) \div (100 * Pct)

\* (variant) the lower of the two stops
tightenStopForLongLoosened(entryPrice, swingLowStop, maxLossPct) ==
  LET pctStop == calculateMaxLossStopPrice(entryPrice, maxLossPct)
  IN IF swingLowStop <= pctStop THEN swingLowStop ELSE pctStop

tightenStopForLong(entryPrice, swingLowStop, maxLossPct) ==
  LET pctStop == calculateMaxLossStopPrice(entryPrice, maxLossPct)
  IN IF swingLowStop >= pctStop THEN swingLowStop ELSE pctStop

\* (variant) a guard that accepts a stop at the entry price
calculateTakeProfitPriceThrowsBelow(entryPrice, stopPrice, rMultiple) ==
  rMultiple <= 0 \/ entryPrice < stopPrice

calculateTakeProfitPriceThrows(entryPrice, stopPrice, rMultiple) ==
  rMultiple <= 0 \/ entryPrice <= stopPrice

calculateTakeProfitPrice(entryPrice, stopPrice, rMultiple) ==
  entryPrice + (entryPrice - stopPrice) * rMultiple

\* -------------------------------------- strategy (ema_trend_pullback_v0.ts)
PULLBACK_LOOKBACK_BARS == 4
RSI_PERIOD == 14
RSI_LOWER_BOUND == 45
RSI_UPPER_BOUND == 70
ATR_PERIOD == 14
ATR_STOP_MULTIPLIER == 2
\* 1.2 % and 0.4 %, in steps of 10^-PctDecimals percent
MAX_DISTANCE_FROM_EMA_FAST_PCT == 12
MIN_STOP_DISTANCE_PCT == 4

noSignal(reason) ==
  [type |-> "NO_SIGNAL", reason |-> reason, entry_price |-> 0, stop_price |-> 0,
   take_profit_price |-> 0]

entrySignal(entryPrice, stopPrice, takeProfitPrice) ==
  [type |-> "ENTER", reason |-> "NONE", entry_price |-> entryPrice,
   stop_price |-> stopPrice, take_profit_price |-> takeProfitPrice]

\* one of the risk functions raised: the evaluation returns no decision
raised == [type |-> "THROWS", reason |-> "NONE", entry_price |-> 0, stop_price |-> 0,
           take_profit_price |-> 0]

minimumBars(config) ==
  SetMax({config.ema_fast_period, config.ema_slow_period,
          config.swing_low_lookback_bars, PULLBACK_LOOKBACK_BARS + 1,
          RSI_PERIOD + 1, ATR_PERIOD + 1})

\* (variant) a trend filter that lets every pair of EMAs pass
trendFilterFailsNever(emaFast, emaSlow) == FALSE

\* emaFast <= emaSlow
trendFilterFails(emaFast, emaSlow) == emaFast <= emaSlow

\* (variant) no chase ceiling
tooFarFromEmaFastNever(entryPrice, emaFast) == FALSE

\* ((entryPrice - emaFast) / entryPrice) * 100 > MAX_DISTANCE_FROM_EMA_FAST_PCT,
\* for a positive entryPrice
tooFarFromEmaFast(entryPrice, emaFast) ==
  (entryPrice - emaFast) * 100 * Pct > MAX_DISTANCE_FROM_EMA_FAST_PCT * entryPrice

\* ((entryPrice - finalStop) / entryPrice) * 100 < MIN_STOP_DISTANCE_PCT
stopTooTight(entryPrice, stop) ==
  (entryPrice - stop) * 100 * Pct < MIN_STOP_DISTANCE_PCT * entryPrice

\* the loop over the bars before the latest one
hasPullback(tail) ==
  LET latestIndex == Len(tail)
      pullbackStartIndex == SetMax({1, latestIndex - PULLBACK_LOOKBACK_BARS})
  IN \E k \in pullbackStartIndex..(latestIndex - 1) :
        /\ tail[k].emaFast # Undefined
        /\ (tail[k].low <= tail[k].emaFast \/ tail[k].close < tail[k].emaFast)

\* lows.slice(-lookbackBars) reads the tail only: lookbackBars is at most
\* PULLBACK_LOOKBACK_BARS + 1 in every configuration of the model
lowsOf(bars) == [k \in 1..Len(bars.tail) |-> bars.tail[k].low]

evaluateEmaTrendPullbackV0(bars, config) ==
  LET last == bars.tail[Len(bars.tail)]
      emaFast == last.emaFast
      emaSlow == bars.emaSlow
      entryPrice == last.close
      rsiValue == bars.rsi
      swingLowStop == calculateSwingLow(lowsOf(bars), config.swing_low_lookback_bars)
      stopCandidate ==
        tightenStopForLong(entryPrice, swingLowStop, config.max_loss_per_trade_pct)
      latestAtr == bars.atr
      atrStop == entryPrice - latestAtr * ATR_STOP_MULTIPLIER
  IN IF bars.length < minimumBars(config) THEN noSignal("INSUFFICIENT_BARS")
     ELSE IF config.min_notional_usdc <= 0 THEN noSignal("INVALID_MIN_NOTIONAL_USDC")
     ELSE IF emaFast = Undefined \/ emaSlow = Undefined THEN noSignal("EMA_NOT_STABLE")
     ELSE IF trendFilterFails(emaFast, emaSlow) THEN noSignal("EMA_TREND_FILTER_FAILED")
     ELSE IF ~hasPullback(bars.tail) THEN noSignal("PULLBACK_NOT_FOUND")
     ELSE IF ~(entryPrice > emaFast) THEN noSignal("RECLAIM_NOT_FOUND")
     ELSE IF tooFarFromEmaFast(entryPrice, emaFast)
       THEN noSignal("CHASE_ENTRY_TOO_FAR_FROM_EMA")
     ELSE IF rsiValue = Undefined THEN noSignal("RSI_NOT_STABLE")
     ELSE IF rsiValue < RSI_LOWER_BOUND THEN noSignal("RSI_TOO_LOW")
     ELSE IF rsiValue > RSI_UPPER_BOUND THEN noSignal("RSI_TOO_HIGH")
     \* calculateSwingLow raises on lows.length < lookbackBars; lows has one
     \* entry per bar
     ELSE IF \/ config.swing_low_lookback_bars <= 0
             \/ bars.length < config.swing_low_lookback_bars
             \/ calculateMaxLossStopPriceThrows(entryPrice, config.max_loss_per_trade_pct)
       THEN raised
     ELSE IF latestAtr # Undefined /\ latestAtr > 0 /\ atrStop < stopCandidate
       THEN noSignal("ATR_STOP_CONFLICT_MAX_LOSS")
     ELSE IF stopCandidate >= entryPrice THEN noSignal("INVALID_RISK_STRUCTURE")
     ELSE IF stopTooTight(entryPrice, stopCandidate) THEN noSignal("STOP_TOO_TIGHT")
     ELSE IF calculateTakeProfitPriceThrows(entryPrice, stopCandidate,
                                            config.take_profit_r_multiple)
       THEN raised
     ELSE entrySignal(entryPrice, stopCandidate,
                      calculateTakeProfitPrice(entryPrice, stopCandidate,
                                               config.take_profit_r_multiple))

\* the bars of the two windows of the bot's runs
QuietBar == [low |-> 4 * Micro - 300, close |-> 4 * Micro - 100, emaFast |-> 4 * Micro - 400]
DipBar == [low |-> 2 * Micro, close |-> 4 * Micro - 300, emaFast |-> 4 * Micro - 200]
LatestBar == [low |-> 4 * Micro - 200, close |-> 4 * Micro, emaFast |-> 4 * Micro - 100]

\* a window in an uptrend that pulled back and reclaimed the fast EMA
UpWindow == [length |-> 15, tail |-> <<QuietBar, QuietBar, QuietBar, DipBar, LatestBar>>,
             emaSlow |-> 4 * Micro - 1000, rsi |-> 60, atr |-> Undefined]

\* the same bars with the slow EMA at the fast EMA
FlatWindow == [UpWindow EXCEPT !.emaSlow = LatestBar.emaFast]

\* the windows fetchBars hands to the strategy
MarketWindows == {UpWindow, FlatWindow}

\* what fetchBars can return: close times of consecutive bars in ascending
\* order, around the resolved boundary (the last one may still be forming)
FetchedWindows(barCloseTime) ==
  SUBSET {barCloseTime - 1, barCloseTime, barCloseTime + 1}

\* bars.filter((bar) => bar.closeTime <= barCloseTime)
closedBars(bars, barCloseTime) == {b \in bars : b <= barCloseTime}

\* closedBars.at(-1): the window is ascending, so the last is the greatest
latestClosedBar(closed) ==
  IF closed = {} THEN NoBar ELSE CHOOSE b \in closed : \A c \in closed : c <= b

\* (variant) a check that accepts any closed bar
closeTimeDiffersNever(latest, barCloseTime) == FALSE

\* latestClosedBar.closeTime.getTime() !== barCloseTime.getTime()
closeTimeDiffers(latest, barCloseTime) == latest # barCloseTime

FetchBars(i) ==
  /\ pc[i] = "fetchBars"
  /\ \/ /\ Throws
        /\ CatchUnhandled(i)
        /\ UNCHANGED loc
     \/ /\ Returns
        /\ \E bars \in FetchedWindows(loc[i].barCloseTime), window \in MarketWindows :
             LET closed == closedBars(bars, loc[i].barCloseTime)
                 latest == latestClosedBar(closed)
             IN  IF latest = NoBar
                   THEN /\ Finish(i, "FAILED", "no closed bars available", "none")
                        /\ loc' = [loc EXCEPT ![i].latestClosedBar = latest]
                 ELSE IF closeTimeDiffers(latest, loc[i].barCloseTime)
                   THEN /\ Finish(i, "FAILED", "market bar close does not match", "EXPECTED_GOT")
                        /\ loc' = [loc EXCEPT ![i].latestClosedBar = latest]
                 ELSE /\ loc' = [loc EXCEPT ![i].bars = window,
                                            ![i].latestClosedBar = latest]
                      /\ Goto(i, "countTrades")
                      /\ UNCHANGED run
        /\ UNCHANGED obs
  /\ UNCHANGED <<now, redisLock, runnerLockToken, idem, inflight, trades, runs,
                 proc, expiries>>

\* (variant) a count of the day's open trades only
countOpenTradesForUtcDay == Cardinality({b \in Bars : trades[b].state = "CONFIRMED"})

\* FirestoreRepository.countTradesForUtcDay; every bar of the model lies in
\* one UTC day
countTradesForUtcDay == Cardinality({b \in Bars : trades[b].state # "NONE"})


\* the daily cap, then the strategy evaluation
CountTrades(i) ==
  /\ pc[i] = "countTrades"
  /\ \/ /\ Throws
        /\ CatchUnhandled(i)
        /\ UNCHANGED loc
     \/ /\ Returns
        /\ IF countTradesForUtcDay >= MaxTradesPerDay
             THEN /\ Finish(i, "SKIPPED", "max_trades_per_day reached", "TRADES_TODAY")
                  /\ UNCHANGED <<loc, obs>>
             ELSE LET decision == evaluateEmaTrendPullbackV0(loc[i].bars, loc[i].config)
                  IN IF decision.type = "THROWS"
                       THEN /\ CatchUnhandled(i)
                            /\ UNCHANGED loc
                       ELSE /\ loc' = [loc EXCEPT ![i].decision = decision.type,
                                                  ![i].decisionReason = decision.reason]
                            /\ obs' = [obs EXCEPT !.evals[loc[i].barCloseTime] = @ + 1]
                            /\ Goto(i, "markEntryAttempt")
                            /\ UNCHANGED run
  /\ UNCHANGED <<now, redisLock, runnerLockToken, idem, inflight, trades, runs,
                 proc, expiries>>

\* (variant) the key written without NX: the SET always answers OK
markEntryAttemptOverwriting(bar) == TRUE

\* lock.markEntryAttempt: SET idem key NX EX ttl; TRUE iff the key was absent
markEntryAttempt(bar) == bar \notin idem

\* (variant) runCycle goes on to openPosition whatever markEntryAttempt returned
MarkEntryAttemptUnchecked(i) ==
  /\ pc[i] = "markEntryAttempt"
  /\ \/ /\ Throws
        /\ CatchUnhandled(i)
        /\ UNCHANGED idem
     \/ /\ Returns
        /\ idem' = idem \cup {loc[i].barCloseTime}
        /\ IF loc[i].decision = "NO_SIGNAL"
             THEN Finish(i, "NO_SIGNAL", "decision.summary", loc[i].decisionReason)
                  /\ obs' = [obs EXCEPT !.noSignal = @ \cup {<<loc[i].barCloseTime, i>>},
                                        !.markFailed =
                                          IF markEntryAttempt(loc[i].barCloseTime)
                                            THEN @ ELSE @ \cup {i}]
             ELSE /\ Goto(i, "createTrade")
                  /\ obs' = [obs EXCEPT !.opens[loc[i].barCloseTime] = @ + 1,
                              !.openers = @ \cup {i}]
                  /\ UNCHANGED run
  /\ UNCHANGED <<now, redisLock, runnerLockToken, inflight, trades, runs,
                 proc, loc, expiries>>

\* (variant) the key is marked on ENTER only
MarkEntryAttemptOnEnterOnly(i) ==
  /\ pc[i] = "markEntryAttempt"
  /\ \/ /\ Throws
        /\ CatchUnhandled(i)
        /\ UNCHANGED idem
     \/ /\ Returns
        /\ idem' = IF loc[i].decision = "NO_SIGNAL"
                     THEN idem ELSE idem \cup {loc[i].barCloseTime}
        /\ IF loc[i].decision = "NO_SIGNAL"
             THEN Finish(i, "NO_SIGNAL", "decision.summary", loc[i].decisionReason)
                  /\ obs' = [obs EXCEPT !.noSignal = @ \cup {<<loc[i].barCloseTime, i>>},
                                        !.markFailed =
                                          IF markEntryAttempt(loc[i].barCloseTime)
                                            THEN @ ELSE @ \cup {i}]
             ELSE IF ~markEntryAttempt(loc[i].barCloseTime)
               THEN Finish(i, "SKIPPED_ENTRY", "idem entry key already exists for this bar", "none")
                    /\ obs' = [obs EXCEPT !.markFailed = @ \cup {i}]
             ELSE /\ Goto(i, "createTrade")
                  /\ obs' = [obs EXCEPT !.opens[loc[i].barCloseTime] = @ + 1,
                                        !.openers = @ \cup {i}]
                  /\ UNCHANGED run
  /\ UNCHANGED <<now, redisLock, runnerLockToken, inflight, trades, runs,
                 proc, loc, expiries>>

\* runCycle: the key is marked after the evaluation, on NO_SIGNAL and on ENTER;
\* an ENTER whose mark fails is SKIPPED_ENTRY, else openPosition is called
MarkEntryAttempt(i) ==
  /\ pc[i] = "markEntryAttempt"
  /\ \/ /\ Throws
        /\ CatchUnhandled(i)
        /\ UNCHANGED idem
     \/ /\ Returns
        /\ idem' = idem \cup {loc[i].barCloseTime}
        /\ IF loc[i].decision = "NO_SIGNAL"
             THEN Finish(i, "NO_SIGNAL", "decision.summary", loc[i].decisionReason)
                  /\ obs' = [obs EXCEPT !.noSignal = @ \cup {<<loc[i].barCloseTime, i>>},
                                        !.markFailed =
                                          IF markEntryAttempt(loc[i].barCloseTime)
                                            THEN @ ELSE @ \cup {i}]
             ELSE IF ~markEntryAttempt(loc[i].barCloseTime)
               THEN Finish(i, "SKIPPED_ENTRY", "idem entry key already exists for this bar", "none")
                    /\ obs' = [obs EXCEPT !.markFailed = @ \cup {i}]
             ELSE /\ Goto(i, "createTrade")
                  /\ obs' = [obs EXCEPT !.opens[loc[i].barCloseTime] = @ + 1,
                                        !.openers = @ \cup {i}]
                  /\ UNCHANGED run
  /\ UNCHANGED <<now, redisLock, runnerLockToken, inflight, trades, runs,
                 proc, loc, expiries>>

\* ------------------------------------------------------------- openPosition
\* the exception is caught by openPosition's own catch block
OpenCaught(i) ==
  /\ Goto(i, "openCatch")
  /\ obs' = [obs EXCEPT !.raised[i] = "inner"]

\* what openPosition's moveState hands to updateTrade (set with merge):
\* state, plan, execution, position
openMoveStateUpdate(stored, trade, nextState) ==
  [stored EXCEPT !.state = nextState,
                 !.status = trade.status,
                 !.quantity = trade.quantity,
                 !.entry_price = trade.entry_price,
                 !.stop_price = trade.stop_price,
                 !.take_profit_price = trade.take_profit_price]

\* created_at of the next trade document: later than every stored one
nextCreatedAt ==
  1 + (CHOOSE m \in 0..(MaxBar + 1) : /\ \A t \in TradeIds : trades[t].created <= m
                                      /\ \E t \in TradeIds : trades[t].created = m)

\* openPosition: build the TradeRecord at CREATED and createTrade it (set(),
\* outside the try block); min_notional_usdc > 0 holds of every Enter decision
CreateTrade(i) ==
  /\ pc[i] = "createTrade"
  /\ \/ /\ Throws
        /\ CatchUnhandled(i)
        /\ UNCHANGED <<trades, loc>>
     \/ /\ Returns
        /\ LET trade == [NoTrade EXCEPT !.state = "CREATED", !.status = "OPEN",
                                        !.entry_price = Signal.entry_price,
                                        !.stop_price = Signal.stop_price,
                                        !.take_profit_price = Signal.take_profit_price,
                                        !.created = nextCreatedAt]
           IN /\ trades' = [trades EXCEPT ![loc[i].barCloseTime] = trade]
              /\ loc' = [loc EXCEPT ![i].trade = trade,
                                    ![i].trade_id = loc[i].barCloseTime,
                                    ![i].currentState = "CREATED"]
        /\ obs' = [obs EXCEPT !.creates[loc[i].barCloseTime] = @ + 1,
                              !.creators = @ \cup {i},
                              !.writes = Written(@, trades[loc[i].barCloseTime], "CREATED")]
        /\ Goto(i, "openSubmit")
        /\ UNCHANGED run
  /\ UNCHANGED <<now, redisLock, runnerLockToken, idem, inflight, runs,
                 proc, expiries>>

\* openPosition: submitSwap BUY_SOL_WITH_USDC
OpenSubmit(i) ==
  /\ pc[i] = "openSubmit"
  /\ \/ /\ Throws
        /\ OpenCaught(i)
        /\ UNCHANGED loc
     \/ /\ Returns
        /\ \E submission \in Submissions :
             loc' = [loc EXCEPT ![i].submission = submission]
        /\ obs' = [obs EXCEPT !.buys[loc[i].trade_id] = @ + 1]
        /\ Goto(i, "openMoveSubmitted")
  /\ UNCHANGED <<now, redisLock, runnerLockToken, idem, inflight, trades, runs,
                 proc, run, expiries>>

\* openPosition's moveState(nextState) with the trade as it is in memory: the
\* assertion, then currentState and trade.state are set, then updateTrade.
\* onOk / onThrow: where the caller continues
OpenMoveState(i, trade, nextState, onOk, onThrow) ==
  LET verdict == assertTradeStateTransition(loc[i].currentState, nextState)
      moved == [loc EXCEPT ![i].trade = [trade EXCEPT !.state = nextState],
                           ![i].currentState = nextState]
  IN \/ /\ Throws
        /\ verdict = "ok"
        /\ loc' = moved
        /\ Goto(i, onThrow)
        /\ obs' = [obs EXCEPT !.raised[i] = "inner",
                              !.rejected = Rejection(@, loc[i].currentState, nextState)]
        /\ UNCHANGED trades
     \/ /\ Returns
        /\ obs' = [obs EXCEPT !.rejected = Rejection(@, loc[i].currentState, nextState),
                              !.raised[i] = IF verdict = "ok" THEN @ ELSE "inner",
                              !.writes = IF verdict = "ok"
                                           THEN Written(@, trades[loc[i].trade_id], nextState)
                                           ELSE @]
        /\ IF verdict = "ok"
             THEN /\ trades' = [trades EXCEPT ![loc[i].trade_id] =
                                   openMoveStateUpdate(@, trade, nextState)]
                  /\ loc' = moved
                  /\ Goto(i, onOk)
             ELSE /\ loc' = [loc EXCEPT ![i].trade = trade]
                  /\ Goto(i, onThrow)
                  /\ UNCHANGED trades

\* (variant) a failed SUBMITTED write that is passed over: the in-flight
\* marker and the confirmation follow all the same
OpenMoveSubmittedPassedOver(i) ==
  /\ pc[i] = "openMoveSubmitted"
  /\ OpenMoveState(i, loc[i].trade, "SUBMITTED", "openSetInflight", "openSetInflight")
  /\ UNCHANGED <<now, redisLock, runnerLockToken, idem, inflight, runs,
                 proc, run, expiries>>

\* openPosition: moveState('SUBMITTED')
OpenMoveSubmitted(i) ==
  /\ pc[i] = "openMoveSubmitted"
  /\ OpenMoveState(i, loc[i].trade, "SUBMITTED", "openSetInflight", "openCatch")
  /\ UNCHANGED <<now, redisLock, runnerLockToken, idem, inflight, runs,
                 proc, run, expiries>>

\* openPosition: lock.setInflightTx(submission.txSignature)
OpenSetInflight(i) ==
  /\ pc[i] = "openSetInflight"
  /\ \/ /\ Throws
        /\ OpenCaught(i)
        /\ UNCHANGED inflight
     \/ /\ Returns
        /\ inflight' = inflight \cup {i}
        /\ Goto(i, "openConfirm")
        /\ UNCHANGED obs
  /\ UNCHANGED <<now, redisLock, runnerLockToken, idem, trades, runs,
                 proc, run, loc, expiries>>

\* openPosition: execution.confirmSwap(txSignature, TX_CONFIRM_TIMEOUT_MS)
OpenConfirm(i) ==
  /\ pc[i] = "openConfirm"
  /\ \/ /\ Throws
        /\ OpenCaught(i)
        /\ UNCHANGED loc
     \/ /\ Returns
        /\ \E confirmed \in BOOLEAN : loc' = [loc EXCEPT ![i].confirmed = confirmed]
        /\ Goto(i, "openClearInflight")
        /\ UNCHANGED obs
  /\ UNCHANGED <<now, redisLock, runnerLockToken, idem, inflight, trades, runs,
                 proc, run, expiries>>

\* openPosition: the stop of the fill; the swing-low stop is replaced by the
\* maximum-loss stop when it is not below the entry price
finalStop(resolvedEntryPrice, swingStop, maxLossPct) ==
  LET pctStop == calculateMaxLossStopPrice(resolvedEntryPrice, maxLossPct)
      tightened == tightenStopForLong(resolvedEntryPrice, swingStop, maxLossPct)
  IN IF tightened >= resolvedEntryPrice THEN pctStop ELSE tightened

\* openPosition: the position recomputed from the fill, as it is stored
alignedPosition(trade, receivedSol, resolvedEntryPrice, config) ==
  LET stop == finalStop(resolvedEntryPrice, trade.stop_price, config.max_loss_per_trade_pct)
      recalculatedTakeProfit ==
        calculateTakeProfitPrice(resolvedEntryPrice, stop, config.take_profit_r_multiple)
  IN [trade EXCEPT !.quantity = roundTo(receivedSol, 9),
                   !.entry_price = roundTo(resolvedEntryPrice, 6),
                   !.stop_price = roundTo(stop, 6),
                   !.take_profit_price = roundTo(recalculatedTakeProfit, 6)]

\* (variant) a fill check that accepts every quantity
invalidFilledQuantityNever(receivedSol) == FALSE

\* !Number.isFinite(receivedSol) || receivedSol <= 0 (the quantities of the
\* model are finite)
invalidFilledQuantity(receivedSol) == receivedSol <= 0

\* openPosition: lock.clearInflightTx, the branch on confirmation.confirmed,
\* the realized quantity and the position recomputed from the fill
\* (trade.stop_price still is signal.stop_price here)
OpenClearInflight(i) ==
  /\ pc[i] = "openClearInflight"
  /\ LET receivedSol == loc[i].submission.filled_base_sol
         resolvedEntryPrice == loc[i].submission.avg_fill_price
         config == loc[i].config
     IN \/ /\ Throws
           /\ OpenCaught(i)
           /\ UNCHANGED <<inflight, loc>>
        \/ /\ Returns
           /\ inflight' = inflight \ {i}
           /\ IF ~loc[i].confirmed
                THEN /\ loc' = [loc EXCEPT ![i].failure = "entry tx not confirmed"]
                     /\ Goto(i, "openFailed")
                     /\ UNCHANGED obs
              ELSE IF invalidFilledQuantity(receivedSol)
                THEN /\ loc' = [loc EXCEPT ![i].failure = "filled quantity is 0"]
                     /\ Goto(i, "openFailed")
                     /\ UNCHANGED obs
              ELSE IF \/ calculateMaxLossStopPriceThrows(resolvedEntryPrice,
                                                         config.max_loss_per_trade_pct)
                      \/ calculateTakeProfitPriceThrows(
                            resolvedEntryPrice,
                            finalStop(resolvedEntryPrice, loc[i].trade.stop_price,
                                      config.max_loss_per_trade_pct),
                            config.take_profit_r_multiple)
                THEN /\ OpenCaught(i)
                     /\ UNCHANGED loc
              ELSE /\ loc' = [loc EXCEPT ![i].trade =
                                alignedPosition(loc[i].trade, receivedSol,
                                                resolvedEntryPrice, config)]
                   /\ Goto(i, "openCommit")
                   /\ UNCHANGED obs
  /\ UNCHANGED <<now, redisLock, runnerLockToken, idem, trades, runs,
                 proc, run, expiries>>

\* openPosition: moveState('FAILED') and return FAILED (not confirmed, or an
\* invalid filled quantity)
OpenFailed(i) ==
  /\ pc[i] = "openFailed"
  /\ OpenMoveState(i, loc[i].trade, "FAILED", "saveRun", "openCatch")
  /\ run' = [run EXCEPT ![i] =
               IF pc'[i] = "saveRun"
                 THEN [@ EXCEPT !.result = "FAILED", !.summary = loc[i].failure,
                                !.trade_id = loc[i].trade_id]
                 ELSE @]
  /\ UNCHANGED <<now, redisLock, runnerLockToken, idem, inflight, runs,
                 proc, expiries>>

\* openPosition: moveState('CONFIRMED') and return OPENED
OpenCommit(i) ==
  /\ pc[i] = "openCommit"
  /\ OpenMoveState(i, loc[i].trade, "CONFIRMED", "saveRun", "openCatch")
  /\ run' = [run EXCEPT ![i] =
               IF pc'[i] = "saveRun"
                 THEN [@ EXCEPT !.result = "OPENED", !.summary = "OPENED: tx, qty",
                                !.trade_id = loc[i].trade_id]
                 ELSE @]
  /\ UNCHANGED <<now, redisLock, runnerLockToken, idem, inflight, runs,
                 proc, expiries>>

\* openPosition, the catch block: moveState('FAILED') in its own try/catch
\* (a failure of it is logged), then return FAILED with the error message
OpenCatch(i) ==
  /\ pc[i] = "openCatch"
  /\ OpenMoveState(i, loc[i].trade, "FAILED", "saveRun", "saveRun")
  /\ run' = [run EXCEPT ![i] = [@ EXCEPT !.result = "FAILED",
                                         !.summary = "FAILED: errorMessage",
                                         !.trade_id = loc[i].trade_id]]
  /\ UNCHANGED <<now, redisLock, runnerLockToken, idem, inflight, runs,
                 proc, expiries>>

\* --------------------------------------------------------- specification
Step(i) ==
  \/ Start(i) \/ AcquireLock(i) \/ SaveSkipped(i)
  \/ GetConfig(i) \/ FindOpenTrade(i) \/ MarkPrice(i)
  \/ CloseSubmit(i) \/ CloseRecord(i) \/ CloseSetInflight(i) \/ CloseConfirm(i)
  \/ CloseClearInflight(i) \/ CloseNotConfirmed(i) \/ CloseCommit(i) \/ CloseCatch(i)
  \/ HasEntryAttempt(i) \/ FetchBars(i) \/ CountTrades(i) \/ MarkEntryAttempt(i)
  \/ CreateTrade(i) \/ OpenSubmit(i) \/ OpenMoveSubmitted(i) \/ OpenSetInflight(i)
  \/ OpenConfirm(i) \/ OpenClearInflight(i) \/ OpenFailed(i) \/ OpenCommit(i)
  \/ OpenCatch(i)
  \/ SaveRunFinally(i) \/ ReleaseGet(i) \/ ReleaseDel(i)

Next == ExpireRunnerLock \/ \E i \in 1..MaxInv : Step(i)

\* the bot from an empty trades collection
Spec == Init /\ [][Next]_vars

\* the bot restarted on an open position
SpecOpen == InitOpen /\ [][Next]_vars

\* getCurrentConfig resolves to a disabled configuration, or rejects
GetConfigDisabled(i) == GetConfig(i) /\ pc'[i] # "findOpenTrade"

NextDisabled ==
  \/ ExpireRunnerLock
  \/ \E i \in 1..MaxInvDisabled :
        \/ Start(i) \/ AcquireLock(i) \/ SaveSkipped(i) \/ GetConfigDisabled(i)
        \/ SaveRunFinally(i) \/ ReleaseGet(i) \/ ReleaseDel(i)

\* the bot while config/current.enabled is false
SpecDisabled == Init /\ [][NextDisabled]_vars

\* trades closePosition can be handed by a direct caller: any state, any
\* quantity
HandedTrades ==
  {[OpenedEarlier EXCEPT !.state = st, !.quantity = q] : st \in TradeState, q \in {0, Lamport}}

\* closePosition called on its own, by a caller that holds no run lock
InitClose ==
  /\ \E trade \in HandedTrades, closeReason \in {"TAKE_PROFIT", "STOP_LOSS"} :
       /\ trades = [t \in TradeIds |-> IF t = 0 THEN trade ELSE NoTrade]
       /\ loc = [i \in Inv |->
                   IF i = 1
                     THEN [LocInit EXCEPT !.trade = trade, !.handed = trade, !.trade_id = 0,
                                          !.currentState = trade.state,
                                          !.closeReason = closeReason]
                     ELSE LocInit]
  /\ pc = [i \in Inv |-> IF i = 1 THEN "closeSubmit" ELSE "idle"]
  /\ now = 1
  /\ redisLock = None
  /\ runnerLockToken = [p \in Procs |-> None]
  /\ idem = {}
  /\ inflight = {}
  /\ runs = [i \in Inv |-> "none"]
  /\ proc = [i \in Inv |-> 1]
  /\ run = [i \in Inv |-> RunInit]
  /\ faults = 0
  /\ expiries = 0
  /\ obs = ObsInit

NextClose ==
  \E i \in {1} :
     \/ CloseSubmit(i) \/ CloseRecord(i) \/ CloseSetInflight(i) \/ CloseConfirm(i)
     \/ CloseClearInflight(i) \/ CloseNotConfirmed(i) \/ CloseCommit(i) \/ CloseCatch(i)
     \/ SaveRunFinally(i) \/ ReleaseGet(i)

SpecClose == InitClose /\ [][NextClose]_vars

\* fills, signal stops and risk settings the recomputation is applied to: fills
\* above, at and below the swing-low stop, down to prices of a few 10^-6
RiskEntryPrices == {0, Micro, 4 * Micro, 4 * Micro + 4900, 10 * Micro, 100 * Micro}
RiskSwingStops == {2 * Micro, 5 * Micro}
RiskConfigs ==
  {[Config EXCEPT !.max_loss_per_trade_pct = pct, !.take_profit_r_multiple = r] :
     pct \in {Pct, 50 * Pct}, r \in {1, 2}}
\* filled quantities: whole atomic units, as submitSwap reports them
\* (Number(outAmountAtomic) / SOL_ATOMIC_MULTIPLIER), zero included
RiskQuantities == {0, Lamport, 2 * Lamport}

\* openPosition after confirmSwap resolved with confirmed: true, for each fill,
\* signal stop and risk setting
InitRisk ==
  /\ \E avg_fill_price \in RiskEntryPrices, filled_base_sol \in RiskQuantities,
        swingStop \in RiskSwingStops, config \in RiskConfigs :
       LET trade == [NoTrade EXCEPT !.state = "SUBMITTED", !.status = "OPEN",
                                    !.entry_price = Signal.entry_price,
                                    !.stop_price = swingStop,
                                    !.take_profit_price = Signal.take_profit_price,
                                    !.created = 1]
       IN /\ trades = [t \in TradeIds |-> IF t = 1 THEN trade ELSE NoTrade]
          /\ loc = [i \in Inv |->
                      IF i = 1
                        THEN [LocInit EXCEPT !.trade = trade, !.trade_id = 1,
                                             !.barCloseTime = 1, !.decision = "ENTER",
                                             !.currentState = "SUBMITTED",
                                             !.confirmed = TRUE, !.config = config,
                                             !.submission =
                                               [avg_fill_price |-> avg_fill_price,
                                                filled_base_sol |-> filled_base_sol]]
                        ELSE LocInit]
  /\ pc = [i \in Inv |-> IF i = 1 THEN "openClearInflight" ELSE "idle"]
  /\ now = 1
  /\ redisLock = None
  /\ runnerLockToken = [p \in Procs |-> None]
  /\ idem = {1}
  /\ inflight = {1}
  /\ runs = [i \in Inv |-> "none"]
  /\ proc = [i \in Inv |-> 1]
  /\ run = [i \in Inv |-> RunInit]
  /\ faults = 0
  /\ expiries = 0
  /\ obs = [ObsInit EXCEPT !.openers = {1}]

NextRisk ==
  \E i \in {1} :
     \/ OpenClearInflight(i) \/ OpenFailed(i) \/ OpenCommit(i) \/ OpenCatch(i)
     \/ SaveRunFinally(i) \/ ReleaseGet(i)

SpecRisk == InitRisk /\ [][NextRisk]_vars

\* openPosition after its confirmation (invocation 1, trade 1) next to
\* closePosition called on its own (invocation 2, trade 0), for the quantities
\* either can meet
InitQuantity ==
  /\ \E filled_base_sol \in RiskQuantities, handed \in HandedTrades,
        closeReason \in {"TAKE_PROFIT", "STOP_LOSS"} :
       LET trade == [NoTrade EXCEPT !.state = "SUBMITTED", !.status = "OPEN",
                                    !.entry_price = Signal.entry_price,
                                    !.stop_price = Signal.stop_price,
                                    !.take_profit_price = Signal.take_profit_price,
                                    !.created = 2]
       IN /\ trades = [t \in TradeIds |-> IF t = 0 THEN handed
                                          ELSE IF t = 1 THEN trade ELSE NoTrade]
          /\ loc = [i \in Inv |->
                      IF i = 1
                        THEN [LocInit EXCEPT !.trade = trade, !.trade_id = 1,
                                             !.barCloseTime = 1, !.decision = "ENTER",
                                             !.currentState = "SUBMITTED",
                                             !.confirmed = TRUE, !.config = Config,
                                             !.submission =
                                               [avg_fill_price |-> Signal.entry_price,
                                                filled_base_sol |-> filled_base_sol]]
                      ELSE IF i = 2
                        THEN [LocInit EXCEPT !.trade = handed, !.handed = handed,
                                             !.trade_id = 0,
                                             !.currentState = handed.state,
                                             !.closeReason = closeReason]
                      ELSE LocInit]
  /\ pc = [i \in Inv |-> IF i = 1 THEN "openClearInflight"
                         ELSE IF i = 2 THEN "closeSubmit" ELSE "idle"]
  /\ now = 1
  /\ redisLock = None
  /\ runnerLockToken = [p \in Procs |-> None]
  /\ idem = {1}
  /\ inflight = {1}
  /\ runs = [i \in Inv |-> "none"]
  /\ proc = [i \in Inv |-> 1]
  /\ run = [i \in Inv |-> RunInit]
  /\ faults = 0
  /\ expiries = 0
  /\ obs = [ObsInit EXCEPT !.openers = {1}]

NextQuantity ==
  \/ \E i \in {1} :
        OpenClearInflight(i) \/ OpenFailed(i) \/ OpenCommit(i) \/ OpenCatch(i)
  \/ \E i \in {2} :
        \/ CloseSubmit(i) \/ CloseRecord(i) \/ CloseSetInflight(i) \/ CloseConfirm(i)
        \/ CloseClearInflight(i) \/ CloseNotConfirmed(i) \/ CloseCommit(i)
        \/ CloseCatch(i)

SpecQuantity == InitQuantity /\ [][NextQuantity]_vars

\* the strategy on its own: windows and configurations on either side of every
\* guard, around an entry price of 1000
StrategyQuiet == [low |-> 998, close |-> 999, emaFast |-> 994]
StrategyDip == [low |-> 990, close |-> 996, emaFast |-> 994]
StrategyUnstable == [low |-> 990, close |-> 990, emaFast |-> Undefined]
StrategyTails ==
  {<<early, early, third, fourth, [low |-> low, close |-> 1000, emaFast |-> emaFast]>> :
     early \in {StrategyQuiet, StrategyUnstable},
     third \in {StrategyQuiet, StrategyDip, StrategyUnstable},
     fourth \in {StrategyQuiet, StrategyDip, StrategyUnstable},
     low \in {990, 998, 1000},
     emaFast \in {Undefined, 980, 988, 995, 1000}}
StrategyWindows ==
  {[length |-> length, tail |-> tail, emaSlow |-> emaSlow, rsi |-> rsi, atr |-> atr] :
     length \in {ATR_PERIOD, ATR_PERIOD + 1},
     tail \in StrategyTails,
     emaSlow \in {Undefined, 975, 995},
     rsi \in {Undefined, RSI_LOWER_BOUND - 1, RSI_LOWER_BOUND, RSI_UPPER_BOUND,
              RSI_UPPER_BOUND + 1},
     atr \in {Undefined, 2, 10}}
\* configurations the schema of config/current accepts, and a minimum
\* notional of 0, which the strategy checks for itself
StrategyConfigs ==
  {[Config EXCEPT !.max_loss_per_trade_pct = 5, !.swing_low_lookback_bars = lookback,
                  !.min_notional_usdc = notional] :
     lookback \in {1, 3}, notional \in {0, 50}}

\* runCycle about to evaluate the strategy on a window
InitStrategy ==
  /\ \E bars \in StrategyWindows, config \in StrategyConfigs :
       loc = [i \in Inv |->
                IF i = 1
                  THEN [LocInit EXCEPT !.barCloseTime = 1, !.latestClosedBar = 1,
                                       !.bars = bars, !.config = config]
                  ELSE LocInit]
  /\ pc = [i \in Inv |-> IF i = 1 THEN "countTrades" ELSE "idle"]
  /\ trades = [t \in TradeIds |-> NoTrade]
  /\ now = 1
  /\ redisLock = 1
  /\ runnerLockToken = [p \in Procs |-> IF p = 1 THEN 1 ELSE None]
  /\ idem = {}
  /\ inflight = {}
  /\ runs = [i \in Inv |-> "none"]
  /\ proc = [i \in Inv |-> 1]
  /\ run = [i \in Inv |-> RunInit]
  /\ faults = MaxFaults
  /\ expiries = 0
  /\ obs = [ObsInit EXCEPT !.acquired = {1}]

NextStrategy == \E i \in {1} : CountTrades(i) \/ MarkEntryAttempt(i)

SpecStrategy == InitStrategy /\ [][NextStrategy]_vars

\* ---------------------------------------- direct calls of swing_low_stop.ts
\* a caller (the strategy, openPosition, a test) calls one function of the
\* module with the arguments in loc[i].args; the call returns or raises
CallReturns(i, value) ==
  /\ loc' = [loc EXCEPT ![i].result = value]
  /\ Goto(i, "callReturned")

CallThrows(i) ==
  /\ Goto(i, "callThrew")
  /\ UNCHANGED loc

CallCalculateSwingLow(i) ==
  /\ pc[i] = "call"
  /\ loc[i].fn = "calculateSwingLow"
  /\ LET a == loc[i].args
     IN IF calculateSwingLowThrows(a.lows, a.lookbackBars)
          THEN CallThrows(i)
          ELSE CallReturns(i, calculateSwingLow(a.lows, a.lookbackBars))
  /\ UNCHANGED <<now, redisLock, runnerLockToken, idem, inflight, trades, runs,
                 proc, run, faults, expiries, obs>>

CallCalculateMaxLossStopPrice(i) ==
  /\ pc[i] = "call"
  /\ loc[i].fn = "calculateMaxLossStopPrice"
  /\ LET a == loc[i].args
     IN IF calculateMaxLossStopPriceThrows(a.entryPrice, a.maxLossPct)
          THEN CallThrows(i)
          ELSE CallReturns(i, calculateMaxLossStopPrice(a.entryPrice, a.maxLossPct))
  /\ UNCHANGED <<now, redisLock, runnerLockToken, idem, inflight, trades, runs,
                 proc, run, faults, expiries, obs>>

\* tightenStopForLong raises where calculateMaxLossStopPrice, which it calls
\* first, raises
CallTightenStopForLong(i) ==
  /\ pc[i] = "call"
  /\ loc[i].fn = "tightenStopForLong"
  /\ LET a == loc[i].args
     IN IF calculateMaxLossStopPriceThrows(a.entryPrice, a.maxLossPct)
          THEN CallThrows(i)
          ELSE CallReturns(i, tightenStopForLong(a.entryPrice, a.swingLowStop,
                                                 a.maxLossPct))
  /\ UNCHANGED <<now, redisLock, runnerLockToken, idem, inflight, trades, runs,
                 proc, run, faults, expiries, obs>>

CallCalculateTakeProfitPrice(i) ==
  /\ pc[i] = "call"
  /\ loc[i].fn = "calculateTakeProfitPrice"
  /\ LET a == loc[i].args
     IN IF calculateTakeProfitPriceThrows(a.entryPrice, a.stopPrice, a.rMultiple)
          THEN CallThrows(i)
          ELSE CallReturns(i, calculateTakeProfitPrice(a.entryPrice, a.stopPrice,
                                                       a.rMultiple))
  /\ UNCHANGED <<now, redisLock, runnerLockToken, idem, inflight, trades, runs,
                 proc, run, faults, expiries, obs>>

\* the arguments of the calls: prices in steps of 0.001 around 100, among them
\* those of the module's tests (100, 92 and 95; 0.5 %; 2 R;
\* [12, 11, 10.5, 9.8, 10.1, 9.9] in steps of 0.1)
MaxLows == 3
Price == 1000
CallEntryPrices == {0 - Price, 0, 100 * Price, 250 * Price}
CallStopPrices == {92 * Price, 95 * Price, 99 * Price + 500, 100 * Price, 105 * Price}
CallMaxLossPcts == {0 - 5, 0, 5, 2 * Pct, 50 * Pct}
CallRMultiples == {0 - 1, 0, 1, 2, 3}
CallLows ==
  {<<120, 110, 105, 98, 101, 99>>}
    \cup UNION {[1..n -> {98, 99, 101}] : n \in 0..MaxLows}
CallLookbacks == (0 - 1)..(MaxLows + 1)
CallArgs ==
  {[fn |-> "calculateSwingLow", args |-> [lows |-> lows, lookbackBars |-> k]] :
     lows \in CallLows, k \in CallLookbacks}
  \cup
  {[fn |-> "calculateMaxLossStopPrice", args |-> [entryPrice |-> e, maxLossPct |-> m]] :
     e \in CallEntryPrices, m \in CallMaxLossPcts}
  \cup
  {[fn |-> "tightenStopForLong",
    args |-> [entryPrice |-> e, swingLowStop |-> st, maxLossPct |-> m]] :
     e \in CallEntryPrices, st \in CallStopPrices, m \in CallMaxLossPcts}
  \cup
  {[fn |-> "calculateTakeProfitPrice",
    args |-> [entryPrice |-> e, stopPrice |-> st, rMultiple |-> r]] :
     e \in CallEntryPrices, st \in CallStopPrices, r \in CallRMultiples}

InitCall ==
  /\ \E c \in CallArgs :
       loc = [i \in Inv |->
                IF i = 1 THEN [LocInit EXCEPT !.fn = c.fn, !.args = c.args] ELSE LocInit]
  /\ pc = [i \in Inv |-> IF i = 1 THEN "call" ELSE "idle"]
  /\ trades = [t \in TradeIds |-> NoTrade]
  /\ now = 1
  /\ redisLock = None
  /\ runnerLockToken = [p \in Procs |-> None]
  /\ idem = {}
  /\ inflight = {}
  /\ runs = [i \in Inv |-> "none"]
  /\ proc = [i \in Inv |-> 1]
  /\ run = [i \in Inv |-> RunInit]
  /\ faults = 0
  /\ expiries = 0
  /\ obs = ObsInit

NextCall ==
  \E i \in {1} :
     \/ CallCalculateSwingLow(i) \/ CallCalculateMaxLossStopPrice(i)
     \/ CallTightenStopForLong(i) \/ CallCalculateTakeProfitPrice(i)

SpecCall == InitCall /\ [][NextCall]_vars

\* ------------------------------------------- SolanaSender.confirmSignature
\* in this specification `now` is Date.now() in milliseconds
TX_CONFIRM_TIMEOUT_MS == 75000
pollIntervalMs == 2000

\* longest time, in seconds, a status query takes or a timer fires late
MaxLatency == 2
Latencies == {k * 1000 : k \in 0..MaxLatency}

\* what getSignatureStatuses reports for the signature: unknown, or a
\* commitment level, with the transaction's error if it failed
SignatureStatuses ==
  {NullStatus} \cup
  [err : BOOLEAN, confirmationStatus : {"processed", "confirmed", "finalized"}]

TimeoutError == [confirmed |-> FALSE, error |-> "confirmation timeout"]

\* (variant) a timer that fires at once
sleepNoWait(ms, lateness) == 0

\* sleep(ms): the timer fires after ms or later
sleep(ms, lateness) == ms + lateness

\* the head of the loop: while (Date.now() - startedAt <= timeoutMs), then the
\* status query is issued, or the loop is left and the timeout returned
ConfirmWhile(i, dateNow, startedAt) ==
  IF dateNow - startedAt <= loc[i].args.timeoutMs
    THEN /\ Goto(i, "confirmPoll")
         /\ loc' = [loc EXCEPT ![i].startedAt = startedAt]
    ELSE /\ Goto(i, "callReturned")
         /\ loc' = [loc EXCEPT ![i].startedAt = startedAt, ![i].result = TimeoutError]

\* confirmSignature is entered: startedAt = Date.now(), then the loop head
ConfirmSignature(i) ==
  /\ pc[i] = "call"
  /\ loc[i].fn = "confirmSignature"
  /\ ConfirmWhile(i, now, now)
  /\ UNCHANGED <<now, redisLock, runnerLockToken, idem, inflight, trades, runs,
                 proc, run, faults, expiries, obs>>

\* await connection.getSignatureStatuses resolves (or rejects) after some
\* time; an error or a confirmed/finalized status is returned, anything else
\* starts the timer
ConfirmPoll(i) ==
  /\ pc[i] = "confirmPoll"
  /\ \E latency \in Latencies : now' = now + latency
  /\ \/ /\ Throws
        /\ CallThrows(i)
     \/ /\ Returns
        /\ \E status \in SignatureStatuses :
             IF status.err
               THEN /\ loc' = [loc EXCEPT ![i].status = status,
                                          ![i].result = [confirmed |-> FALSE,
                                                         error |-> "status.err"]]
                    /\ Goto(i, "callReturned")
             ELSE IF status.confirmationStatus \in {"confirmed", "finalized"}
               THEN /\ loc' = [loc EXCEPT ![i].status = status,
                                          ![i].result = [confirmed |-> TRUE,
                                                         error |-> "undefined"]]
                    /\ Goto(i, "callReturned")
             ELSE /\ loc' = [loc EXCEPT ![i].status = status]
                  /\ Goto(i, "confirmSleep")
  /\ UNCHANGED <<redisLock, runnerLockToken, idem, inflight, trades, runs,
                 proc, run, expiries, obs>>

\* await sleep(pollIntervalMs) resolves, then the loop head
ConfirmSleep(i) ==
  /\ pc[i] = "confirmSleep"
  /\ \E lateness \in Latencies :
       /\ now' = now + sleep(loc[i].args.pollIntervalMs, lateness)
       /\ ConfirmWhile(i, now', loc[i].startedAt)
  /\ UNCHANGED <<redisLock, runnerLockToken, idem, inflight, trades, runs,
                 proc, run, faults, expiries, obs>>

\* confirmSwap(txSignature, TX_CONFIRM_TIMEOUT_MS) with the default poll
\* interval, next to shorter timeouts
ConfirmArgs ==
  {[timeoutMs |-> t, pollIntervalMs |-> pollIntervalMs] :
     t \in {0, 3000, TX_CONFIRM_TIMEOUT_MS}}

InitConfirm ==
  /\ \E a \in ConfirmArgs :
       loc = [i \in Inv |->
                IF i = 1 THEN [LocInit EXCEPT !.fn = "confirmSignature", !.args = a]
                ELSE LocInit]
  /\ pc = [i \in Inv |-> IF i = 1 THEN "call" ELSE "idle"]
  /\ trades = [t \in TradeIds |-> NoTrade]
  /\ now \in {0, 1000}
  /\ redisLock = None
  /\ runnerLockToken = [p \in Procs |-> None]
  /\ idem = {}
  /\ inflight = {}
  /\ runs = [i \in Inv |-> "none"]
  /\ proc = [i \in Inv |-> 1]
  /\ run = [i \in Inv |-> RunInit]
  /\ faults = 0
  /\ expiries = 0
  /\ obs = ObsInit

NextConfirm ==
  \E i \in {1} : ConfirmSignature(i) \/ ConfirmPoll(i) \/ ConfirmSleep(i)

SpecConfirm == InitConfirm /\ [][NextConfirm]_vars

\* every awaited promise settles (the status query answers, the timer fires)
\* and the event loop resumes the function
SpecConfirmLive == SpecConfirm /\ WF_vars(NextConfirm)

\* ------------------------------------------------- the run lock over time
\* (variant) lock:runner set without EX: the key stays until it is deleted
TtlNeverElapses == FALSE /\ UNCHANGED vars

\* Redis drops lock:runner once the EX ttlSeconds of its SET have passed,
\* whatever has become of the invocation that set it
TtlElapses ==
  /\ redisLock # None
  /\ redisLock' = None
  /\ obs' = [obs EXCEPT !.elapsed = @ \cup {redisLock}]
  /\ UNCHANGED <<now, runnerLockToken, idem, inflight, trades, runs,
                 pc, proc, run, loc, faults, expiries>>

\* the runs collection has no document of this run id
NoRun == [result |-> "NONE"]

\* the bot starts with no lock:runner key, no trade and no run stored
InitLock ==
  /\ now = 1
  /\ redisLock = None
  /\ runnerLockToken = [p \in Procs |-> None]
  /\ idem = {}
  /\ inflight = {}
  /\ trades = [t \in TradeIds |-> NoTrade]
  /\ runs = [i \in Inv |-> NoRun]
  /\ pc = [i \in Inv |-> "idle"]
  /\ proc = [i \in Inv |-> 1]
  /\ run = [i \in Inv |-> RunInit]
  /\ loc = [i \in Inv |-> LocInit]
  /\ faults = 0
  /\ expiries = 0
  /\ obs = ObsInit

\* the randomUUID of an invocation that has ended, still held by an adapter
OldToken == 0 - 2

\* the cron task fires again: the place of an invocation that has returned or
\* thrown, and whose token is no longer in Redis, is taken by the next one,
\* which starts from scratch with a run id and a token of its own
Retrigger(i) ==
  /\ pc[i] \in {"done", "threw"}
  /\ redisLock # i
  /\ Goto(i, "idle")
  /\ run' = [run EXCEPT ![i] = RunInit]
  /\ loc' = [loc EXCEPT ![i] = LocInit]
  /\ runs' = [runs EXCEPT ![i] = NoRun]
  /\ runnerLockToken' = [p \in Procs |-> IF runnerLockToken[p] = i THEN OldToken
                                                                  ELSE runnerLockToken[p]]
  /\ obs' = [obs EXCEPT !.saveCalls[i] = 0, !.saved[i] = 0, !.raised[i] = "none",
                        !.acquired = @ \ {i}, !.released = @ \ {i},
                        !.elapsed = @ \ {i}]
  /\ UNCHANGED <<now, redisLock, idem, inflight, trades, proc, faults, expiries>>

\* the lock steps of runCycle: the cycle body is the disabled one, which holds
\* the lock from acquireRunnerLock to releaseRunnerLock like any other
LockStep(i) ==
  \/ Start(i) \/ AcquireLock(i) \/ SaveSkipped(i) \/ GetConfigDisabled(i)
  \/ SaveRunFinally(i) \/ ReleaseGet(i) \/ ReleaseDel(i)

\* the invocations the scheduler dispatches after the first, one at a time
Later == (1..MaxInv) \ {1}

NextLock ==
  \/ TtlElapses
  \/ \E i \in 1..MaxInv : LockStep(i)
  \/ \E i \in Later : Retrigger(i)

\* invocation 1 may crash or stall anywhere; the scheduler keeps firing
SpecLock == InitLock /\ [][NextLock]_vars

\* the TTL of a key that stays set runs out, the cron task keeps firing, and
\* the invocations after the first run on (their awaited calls settle);
\* invocation 1 is promised nothing: it may stop at any await for good
SpecLockLive ==
  /\ SpecLock
  /\ WF_vars(TtlElapses)
  /\ \A i \in Later : WF_vars(LockStep(i)) /\ WF_vars(Retrigger(i))

\* ------------------------------------------------------------- properties
Returned(i) == pc[i] = "done"
Ended(i) == pc[i] \in {"done", "threw"}

\* saveRun replayed: the write of a stored RunRecord is issued once more (a
\* retried request, a replayed job) while other invocations run
MaxReplays == 1

ReplaySaveRun(i) ==
  /\ Ended(i)
  /\ obs.saved[i] >= 1
  /\ obs.saved[i] <= MaxReplays
  /\ saveRun(i)
  /\ UNCHANGED <<now, redisLock, runnerLockToken, idem, inflight, trades,
                 pc, proc, run, loc, faults, expiries>>

NextReplay ==
  \/ ExpireRunnerLock
  \/ \E i \in 1..MaxInv :
        \/ Start(i) \/ AcquireLock(i) \/ SaveSkipped(i) \/ GetConfigDisabled(i)
        \/ SaveRunFinally(i) \/ ReleaseGet(i) \/ ReleaseDel(i) \/ ReplaySaveRun(i)

SpecReplay == Init /\ [][NextReplay]_vars

\* the invocation acquired the run lock and has not left runCycle
PastLock(i) == i \in obs.acquired /\ ~Ended(i)

\* C1: run-lock mutual exclusion. An invocation that does not get the lock
\* returns SKIPPED, and two invocations are never both past the lock step
\* unless the TTL of the lock of one of them has elapsed.
C1_RunLockMutualExclusion ==
  /\ \A i \in Inv : Returned(i) /\ i \notin obs.acquired => run[i].result = "SKIPPED"
  /\ \A i, j \in Inv :
       i # j /\ PastLock(i) /\ PastLock(j) => i \in obs.elapsed \/ j \in obs.elapsed

C3_SecondIsSkippedEntry ==
  \A i \in Inv :
     i \in obs.markedAtStart /\ Returned(i) => run[i].result = "SKIPPED_ENTRY"

\* the steps of openPosition
OpenPcs ==
  {"createTrade", "openSubmit", "openMoveSubmitted", "openSetInflight", "openConfirm",
   "openClearInflight", "openFailed", "openCommit", "openCatch"}

\* C3 (amended): an invocation dispatched after the entry attempt of its bar
\* was marked never enters openPosition nor creates a trade, and its result
\* is SKIPPED_ENTRY from the moment its hasEntryAttempt call has returned.
C3_NoReentryAfterMark ==
  \A i \in Inv :
     i \in obs.markedAtStart =>
        /\ pc[i] \notin OpenPcs
        /\ i \notin obs.creators
        /\ i \in obs.judged => run[i].result = "SKIPPED_ENTRY"

\* the second invocation of a marked bar got to the idempotency check and
\* returned
C3_Witness ==
  \E i \in Inv : i \in obs.markedAtStart /\ i \in obs.judged /\ Returned(i)

\* C4: no second sell is submitted for one trade.
C4_SingleExitSubmission ==
  \A t \in TradeIds : obs.sells[t] <= 1

\* C5: at most one TradeRecord is in state CONFIRMED.
C5_AtMostOneOpenPosition ==
  Cardinality({t \in TradeIds : trades[t].state = "CONFIRMED"}) <= 1

\* C6: an invocation that has ended has written exactly one RunRecord.
C6_OneRunRecordPerInvocation ==
  \A i \in Inv : Ended(i) => obs.saved[i] = 1

\* C7: an invocation that acquired the run lock has called releaseRunnerLock
\* by the time it ends, whatever its outcome and whether or not its RunRecord
\* write succeeded; a failed write leaves no record and the result as it was.
C7_LockReleasedInFinally ==
  \A i \in Inv :
     /\ Ended(i) /\ i \in obs.acquired => i \in obs.released
     /\ i \in obs.released => obs.saveCalls[i] = 1
     /\ Returned(i) /\ obs.saved[i] = 1 => runs[i] = sanitizeFirestoreValue(run[i])

\* the RunRecord write was rejected, the lock was released and the invocation
\* returned
C7_Witness ==
  \E i \in Inv :
     /\ Returned(i)
     /\ i \in obs.acquired /\ i \in obs.released
     /\ obs.saveCalls[i] = 1 /\ obs.saved[i] = 0
     /\ run[i].result # "FAILED"

\* C8: runCycle never rejects.
C8_NeverThrows ==
  \A i \in Inv : pc[i] # "threw"

\* the invocation is past the saveRun of the finally block
PastFinallySave(i) == pc[i] \in {"release", "releaseDel", "done", "threw"}

TransitionTable ==
  {<<"CREATED", "SUBMITTED">>, <<"CREATED", "FAILED">>, <<"CREATED", "CANCELED">>,
   <<"SUBMITTED", "CONFIRMED">>, <<"SUBMITTED", "FAILED">>, <<"SUBMITTED", "CANCELED">>,
   <<"CONFIRMED", "SUBMITTED">>, <<"CONFIRMED", "CLOSED">>, <<"CONFIRMED", "FAILED">>,
   <<"CONFIRMED", "CANCELED">>}

\* C10: canTransitionTradeState answers true exactly on the pairs of the
\* table, CLOSED, FAILED and CANCELED have no successor,
\* assertTradeStateTransition raises exactly on the other pairs, and every
\* transition it has raised on during a run is outside the table.
C10_TransitionTable ==
  /\ \A from, to \in TradeState :
        /\ canTransitionTradeState(from, to) <=> <<from, to>> \in TransitionTable
        /\ assertTradeStateTransition(from, to) = "throw" <=> <<from, to>> \notin TransitionTable
  /\ \A from \in {"CLOSED", "FAILED", "CANCELED"}, to \in TradeState :
        ~canTransitionTradeState(from, to)
  /\ obs.rejected \cap TransitionTable = {}

\* assertTradeStateTransition has raised on a transition out of a terminal
\* state
C10_Witness ==
  \E r \in obs.rejected : r[1] \in {"CLOSED", "FAILED", "CANCELED"}

\* C11: every state written to a trade document is a legal transition (or the
\* creation of the document) from the state the document held; in particular
\* a document holding CLOSED, FAILED or CANCELED is never given another state.
C11_EveryStoredWriteLegal ==
  \A w \in obs.writes : w[1] = "NONE" \/ canTransitionTradeState(w[1], w[2])

\* the steps of closePosition
ClosePcs ==
  {"closeSubmit", "closeRecord", "closeSetInflight", "closeConfirm",
   "closeClearInflight", "closeNotConfirmed", "closeCommit", "closeCatch"}

\* the exit trigger the mark price of invocation i has reached on its trade
Reached(i) ==
  IF loc[i].markPrice >= loc[i].trade.take_profit_price THEN "TAKE_PROFIT"
  ELSE IF loc[i].markPrice <= loc[i].trade.stop_price THEN "STOP_LOSS"
  ELSE "NONE"

\* C12: the exit decision on a confirmed open trade. The closer runs with
\* reason TAKE_PROFIT when the mark price is at or over the stored take-profit
\* price, else with STOP_LOSS when it is at or under the stored stop price; a
\* successful close gives the run result CLOSED with that reason on the
\* trade; when neither is reached the result is HOLD, the closer is not
\* entered and no sell is submitted by the invocation.
C12_ExitDecision ==
  \A i \in Inv :
     /\ pc[i] \in ClosePcs =>
           /\ loc[i].markPrice # Undefined
           /\ Reached(i) # "NONE"
           /\ loc[i].closeReason = Reached(i)
     /\ pc[i] = "saveRun" /\ run[i].result = "CLOSED" =>
           /\ Reached(i) # "NONE"
           /\ loc[i].trade.state = "CLOSED"
           /\ loc[i].trade.close_reason = Reached(i)
     /\ pc[i] = "saveRun" /\ run[i].result = "HOLD" =>
           /\ loc[i].markPrice # Undefined
           /\ Reached(i) = "NONE"
           /\ loc[i].currentState = "NONE"
           /\ i \notin obs.sellers

\* a stop-loss exit closed the trade with a single sell
C12_Witness ==
  /\ \E i \in Inv : /\ pc[i] = "saveRun" /\ run[i].result = "CLOSED"
                     /\ loc[i].closeReason = "STOP_LOSS"
                     /\ trades[loc[i].trade_id].close_reason = "STOP_LOSS"
  /\ \E t \in TradeIds : obs.sells[t] = 1

\* C13: closePosition handed a trade that is not CONFIRMED returns FAILED and
\* mutates nothing: no sell is submitted, nothing is written to the store, no
\* in-flight marker is set, and the trade in memory and the stored document
\* are as they were.
C13_NotConfirmedRejected ==
  \A i \in Inv :
     loc[i].handed.state \notin {"NONE", "CONFIRMED"} /\ pc[i] # "closeSubmit" =>
        /\ pc[i] = "saveRun"
        /\ run[i].result = "FAILED"
        /\ run[i].summary = "trade state is not CONFIRMED"
        /\ i \notin obs.sellers
        /\ i \notin inflight
        /\ obs.writes = {}
        /\ loc[i].trade = loc[i].handed
        /\ trades[loc[i].trade_id] = loc[i].handed

\* closePosition has returned FAILED on a trade it was handed as CLOSED
C13_Witness ==
  \E i \in Inv :
     /\ loc[i].handed.state = "CLOSED"
     /\ pc[i] = "saveRun"
     /\ run[i].result = "FAILED"

AwaitingExit == {"closeSetInflight", "closeConfirm", "closeClearInflight"}

C15_RollbackOnFailedCommit ==
  /\ \A i \in Inv :
        /\ pc[i] = "closeCatch" =>
              /\ loc[i].trade.status = loc[i].handed.status
              /\ loc[i].trade.close_reason = loc[i].handed.close_reason
        /\ pc[i] = "saveRun" /\ loc[i].handed.state = "CONFIRMED" =>
              IF run[i].result = "CLOSED"
                THEN /\ loc[i].trade.state = "CLOSED"
                     /\ loc[i].trade.status = "CLOSED"
                     /\ loc[i].trade.close_reason = loc[i].closeReason
                     /\ \E w \in obs.writes : w[2] = "CLOSED"
                ELSE /\ loc[i].trade.state # "CLOSED"
                     /\ loc[i].trade.status = loc[i].handed.status
                     /\ loc[i].trade.close_reason = loc[i].handed.close_reason
  /\ \A t \in TradeIds :
        trades[t].status = "CLOSED" \/ trades[t].close_reason # "NONE" =>
           \E w \in obs.writes : w[2] = "CLOSED"

\* the CLOSED commit failed after a confirmed exit and closePosition returned
\* FAILED: the trade is stored FAILED with its position still OPEN
C15_Witness ==
  \E i \in Inv :
     /\ pc[i] = "saveRun"
     /\ run[i].result = "FAILED"
     /\ loc[i].previousPositionSnapshot = "OPEN"
     /\ loc[i].trade.status = "OPEN"
     /\ loc[i].trade.close_reason = "NONE"
     /\ trades[loc[i].trade_id].state = "FAILED"
     /\ trades[loc[i].trade_id].status = "OPEN"

\* C16: whatever raises inside openPosition is caught by it: the call returns
\* FAILED with the error message and the trade is forced to FAILED, so no
\* error of openPosition reaches the catch block of runCycle.
C16_OpenErrorsCaught ==
  \A i \in obs.openers :
     pc[i] = "saveRun" /\ obs.raised[i] # "none" =>
        /\ obs.raised[i] = "inner"
        /\ run[i].summary = "FAILED: errorMessage"
        /\ loc[i].trade.state = "FAILED"

\* C18: when an open or close attempt has returned, no in-flight marker set by
\* it remains.
C18_InflightClearedOnReturn ==
  \A i \in obs.openers \cup obs.sellers :
     pc[i] = "saveRun" => i \notin inflight

\* C17: every trade stored as CONFIRMED by openPosition has stop_price below
\* entry_price and take_profit_price above entry_price in its stored position.
C17_StopBelowEntryAfterConfirm ==
  \A t \in TradeIds :
     trades[t].state = "CONFIRMED" =>
        /\ trades[t].stop_price < trades[t].entry_price
        /\ trades[t].entry_price < trades[t].take_profit_price

\* the bars of the day for which a TradeRecord was created
CreatedToday == {b \in Bars : obs.creates[b] > 0}

\* C19: an invocation stopped by the daily cap returns SKIPPED with the count
\* as its reason and has not evaluated the strategy, entered openPosition or
\* created a trade; and while the run lock has serialized the invocations (its
\* TTL never elapsed under a holder), an invocation gets past the count only
\* with fewer than max_trades_per_day trades recorded, every bar gets at most
\* one TradeRecord, and the TradeRecords created in the day never exceed
\* max_trades_per_day.
C19_DailyCap ==
  /\ \A i \in Inv :
        pc[i] = "saveRun" /\ run[i].summary = "max_trades_per_day reached" =>
           /\ run[i].result = "SKIPPED"
           /\ run[i].reason = "TRADES_TODAY"
           /\ Cardinality(CreatedToday) >= MaxTradesPerDay
           /\ loc[i].decision = "NONE"
           /\ i \notin obs.openers
           /\ i \notin obs.creators
  /\ expiries = 0 =>
        /\ \A i, j \in Inv : PastLock(i) /\ PastLock(j) => i = j
        /\ \A i \in Inv :
              pc[i] \in {"markEntryAttempt", "createTrade"} =>
                 Cardinality(CreatedToday) < MaxTradesPerDay
        /\ \A b \in Bars : obs.creates[b] <= 1
        /\ Cardinality(CreatedToday) <= MaxTradesPerDay

\* with the lock never elapsed, a later invocation is stopped by the cap that
\* the day's first trade filled
C19_Witness ==
  /\ expiries = 0
  /\ Cardinality(CreatedToday) = MaxTradesPerDay
  /\ \E i \in Inv : /\ pc[i] = "saveRun"
                     /\ run[i].summary = "max_trades_per_day reached"

C21_MarkFailureIsSkippedEntry ==
  \A i \in obs.markFailed :
     pc[i] = "saveRun" =>
        /\ run[i].result = "SKIPPED_ENTRY"
        /\ i \notin obs.openers

\* C22: an invocation whose fetched window holds no closed bar, or whose
\* latest closed bar does not close at the resolved boundary, returns FAILED
\* without evaluating the strategy, creating a trade or entering
\* openPosition; a strategy decision exists only for a window whose last
\* closed bar closes exactly at the boundary.
C22_MisalignedWindowFails ==
  \A i \in Inv :
     /\ loc[i].decision # "NONE" => loc[i].latestClosedBar = loc[i].barCloseTime
     /\ loc[i].latestClosedBar \notin {Unfetched, loc[i].barCloseTime} =>
           /\ pc[i] = "saveRun"
           /\ run[i].result = "FAILED"
           /\ loc[i].decision = "NONE"
           /\ i \notin obs.creators
           /\ i \notin obs.openers

\* an invocation whose latest closed bar is the bar before the boundary
\* has left its try block with result FAILED
C22_Witness ==
  \E i \in Inv :
     /\ pc[i] = "saveRun"
     /\ loc[i].latestClosedBar = loc[i].barCloseTime - 1
     /\ run[i].result = "FAILED"
     /\ run[i].summary = "market bar close does not match"

\* the strategy has returned a decision to the invocation
Evaluated(i) == loc[i].decision # "NONE"

\* both EMAs are numbers and the fast one is below the slow one
FastBelowSlow(bars) ==
  LET emaFast == bars.tail[Len(bars.tail)].emaFast
  IN emaFast # Undefined /\ bars.emaSlow # Undefined /\ emaFast < bars.emaSlow

\* C23: a strategy evaluation in which the fast EMA is below the slow EMA
\* yields NO_SIGNAL with reason EMA_TREND_FILTER_FAILED, whatever the bar
\* count, the minimum notional and the later guards say.
C23_TrendFilterNamedAlways ==
  \A i \in Inv :
     Evaluated(i) /\ FastBelowSlow(loc[i].bars) =>
        /\ loc[i].decision = "NO_SIGNAL"
        /\ loc[i].decisionReason = "EMA_TREND_FILTER_FAILED"

\* C23 (amended): such an evaluation always yields NO_SIGNAL, and its reason
\* is EMA_TREND_FILTER_FAILED whenever the window has the minimum number of
\* bars and the minimum notional is positive, whatever pullback, reclaim,
\* RSI, ATR and stop structure are.
C23_TrendFilterVetoes ==
  \A i \in Inv :
     Evaluated(i) /\ FastBelowSlow(loc[i].bars) =>
        /\ loc[i].decision = "NO_SIGNAL"
        /\ (/\ loc[i].bars.length >= minimumBars(loc[i].config)
            /\ loc[i].config.min_notional_usdc > 0)
           => loc[i].decisionReason = "EMA_TREND_FILTER_FAILED"

\* a window with a pullback, a reclaim and an RSI in the band was vetoed by
\* the trend filter
C23_Witness ==
  \E i \in Inv :
     /\ Evaluated(i)
     /\ FastBelowSlow(loc[i].bars)
     /\ hasPullback(loc[i].bars.tail)
     /\ loc[i].bars.rsi = RSI_LOWER_BOUND
     /\ loc[i].bars.atr = 2
     /\ loc[i].decisionReason = "EMA_TREND_FILTER_FAILED"

\* the guards of the strategy in their documented order, each with the reason
\* code of its failure
DocumentedGuards(bars, config) ==
  LET last == bars.tail[Len(bars.tail)]
      entry == last.close
      stop == SetMax({calculateSwingLow(lowsOf(bars), config.swing_low_lookback_bars),
                      calculateMaxLossStopPrice(entry, config.max_loss_per_trade_pct)})
  IN << <<bars.length >= minimumBars(config), "INSUFFICIENT_BARS">>,
        <<config.min_notional_usdc > 0, "INVALID_MIN_NOTIONAL_USDC">>,
        <<last.emaFast # Undefined /\ bars.emaSlow # Undefined, "EMA_NOT_STABLE">>,
        <<last.emaFast > bars.emaSlow, "EMA_TREND_FILTER_FAILED">>,
        <<\E k \in 1..PULLBACK_LOOKBACK_BARS :
             /\ bars.tail[k].emaFast # Undefined
             /\ (bars.tail[k].low <= bars.tail[k].emaFast
                 \/ bars.tail[k].close < bars.tail[k].emaFast), "PULLBACK_NOT_FOUND">>,
        <<entry > last.emaFast, "RECLAIM_NOT_FOUND">>,
        <<(entry - last.emaFast) * 1000 <= 12 * entry, "CHASE_ENTRY_TOO_FAR_FROM_EMA">>,
        <<bars.rsi # Undefined, "RSI_NOT_STABLE">>,
        <<bars.rsi >= 45, "RSI_TOO_LOW">>,
        <<bars.rsi <= 70, "RSI_TOO_HIGH">>,
        <<bars.atr = Undefined \/ entry - 2 * bars.atr >= stop,
          "ATR_STOP_CONFLICT_MAX_LOSS">>,
        <<stop < entry, "INVALID_RISK_STRUCTURE">>,
        <<(entry - stop) * 1000 >= 4 * entry, "STOP_TOO_TIGHT">> >>

\* C24: the decision is ENTER exactly when every documented guard passes;
\* otherwise it is NO_SIGNAL with the reason code of the first documented
\* guard that fails; no evaluation raises, each returns one of the two.
C24_LinearGuardChain ==
  \A i \in Inv :
     /\ run[i].summary # "unhandled run_cycle error"
     /\ Evaluated(i) =>
        LET chain == DocumentedGuards(loc[i].bars, loc[i].config)
            failing == {k \in 1..Len(chain) : ~chain[k][1]}
        IN /\ loc[i].decision \in {"ENTER", "NO_SIGNAL"}
           /\ loc[i].decision = "ENTER" <=> failing = {}
           /\ loc[i].decision = "NO_SIGNAL" =>
                 loc[i].decisionReason = chain[SetMin(failing)][2]
           /\ loc[i].decision = "ENTER" => loc[i].decisionReason = "NONE"

\* the strategy returned ENTER on a window that passes every guard, the trade
\* is about to be created
C24_Witness ==
  \E i \in Inv :
     /\ pc[i] = "createTrade"
     /\ loc[i].decision = "ENTER"
     /\ loc[i].bars.length = ATR_PERIOD + 1
     /\ loc[i].bars.atr = 2

\* a direct call of fn has returned / raised
CallReturned(i, fn) == pc[i] = "callReturned" /\ loc[i].fn = fn
CallThrew(i, fn) == pc[i] = "callThrew" /\ loc[i].fn = fn

\* C25: tightenStopForLong returns the greater of the swing-low stop and the
\* maximum-loss stop entry * (1 - pct / 100), so the loss at the stop is at
\* most entry * pct / 100; maxLossStop(100, 0.5) = 99.5 and
\* tightenStopForLong(100, 92, 0.5) = 99.5; both raise exactly when
\* entry <= 0 or pct <= 0.
C25_TightenedStopIsTheTighter ==
  \A i \in Inv :
     LET a == loc[i].args
         stop == loc[i].result
     IN /\ CallReturned(i, "tightenStopForLong") =>
             /\ a.entryPrice > 0 /\ a.maxLossPct > 0
             /\ stop >= a.swingLowStop
             /\ stop * 100 * Pct >= a.entryPrice * (100 * Pct - a.maxLossPct)
             /\ \/ stop = a.swingLowStop
                \/ stop * 100 * Pct = a.entryPrice * (100 * Pct - a.maxLossPct)
             /\ (a.entryPrice - stop) * 100 * Pct <= a.entryPrice * a.maxLossPct
             /\ (a.entryPrice = 100 * Price /\ a.swingLowStop = 92 * Price
                   /\ a.maxLossPct = 5) => stop = 99 * Price + 500
        /\ CallReturned(i, "calculateMaxLossStopPrice") =>
             /\ a.entryPrice > 0 /\ a.maxLossPct > 0
             /\ stop * 100 * Pct = a.entryPrice * (100 * Pct - a.maxLossPct)
             /\ (a.entryPrice = 100 * Price /\ a.maxLossPct = 5) => stop = 99 * Price + 500
        /\ (CallThrew(i, "tightenStopForLong") \/ CallThrew(i, "calculateMaxLossStopPrice"))
             => (a.entryPrice <= 0 \/ a.maxLossPct <= 0)

\* tightenStopForLong(100, 92, 0.5) has returned 99.5
C25_Witness ==
  \E i \in Inv :
     /\ CallReturned(i, "tightenStopForLong")
     /\ loc[i].args = [entryPrice |-> 100 * Price, swingLowStop |-> 92 * Price,
                       maxLossPct |-> 5]
     /\ loc[i].result = 99 * Price + 500

\* C26: calculateTakeProfitPrice returns entry + (entry - stop) * rMultiple,
\* 110 for (100, 95, 2); it raises exactly when rMultiple <= 0 or
\* entry <= stop; every price it returns is above the entry price.
C26_TakeProfitAboveEntry ==
  \A i \in Inv :
     LET a == loc[i].args
     IN /\ CallReturned(i, "calculateTakeProfitPrice") =>
             /\ a.rMultiple > 0 /\ a.entryPrice > a.stopPrice
             /\ loc[i].result - a.entryPrice = (a.entryPrice - a.stopPrice) * a.rMultiple
             /\ loc[i].result > a.entryPrice
             /\ (a.entryPrice = 100 * Price /\ a.stopPrice = 95 * Price /\ a.rMultiple = 2)
                  => loc[i].result = 110 * Price
        /\ CallThrew(i, "calculateTakeProfitPrice") =>
             (a.rMultiple <= 0 \/ a.entryPrice <= a.stopPrice)

\* calculateTakeProfitPrice(100, 95, 2) has returned 110
C26_Witness ==
  \E i \in Inv :
     /\ CallReturned(i, "calculateTakeProfitPrice")
     /\ loc[i].args = [entryPrice |-> 100 * Price, stopPrice |-> 95 * Price,
                       rMultiple |-> 2]
     /\ loc[i].result = 110 * Price

\* C27: calculateSwingLow returns the least of the last lookbackBars lows,
\* 9.8 for ([12, 11, 10.5, 9.8, 10.1, 9.9], 4); it raises exactly when
\* lookbackBars <= 0 or there are fewer lows than lookbackBars.
C27_SwingLowOfLookback ==
  \A i \in Inv :
     LET a == loc[i].args
         recent == (Len(a.lows) - a.lookbackBars + 1)..Len(a.lows)
     IN /\ CallReturned(i, "calculateSwingLow") =>
             /\ a.lookbackBars > 0 /\ Len(a.lows) >= a.lookbackBars
             /\ \E k \in recent : loc[i].result = a.lows[k]
             /\ \A k \in recent : loc[i].result <= a.lows[k]
             /\ (a.lows = <<120, 110, 105, 98, 101, 99>> /\ a.lookbackBars = 4)
                  => loc[i].result = 98
        /\ CallThrew(i, "calculateSwingLow") =>
             (a.lookbackBars <= 0 \/ Len(a.lows) < a.lookbackBars)

\* a call has returned a swing low that is not the least of all the lows
C27_Witness ==
  \E i \in Inv :
     /\ CallReturned(i, "calculateSwingLow")
     /\ loc[i].args.lookbackBars = 2
     /\ loc[i].args.lows = <<98, 101, 99>>
     /\ loc[i].result = 99

\* C28: a saveRun that resolves writes the record under its own run id and
\* leaves every other document of the runs collection as it was; replaying
\* the write of a stored record leaves the whole collection as it was.
C28_SaveRunIdempotent ==
  [][\A i \in Inv :
        obs'.saved[i] = obs.saved[i] + 1 =>
           /\ runs'[i] = sanitizeFirestoreValue(run[i])
           /\ \A j \in Inv \ {i} : runs'[j] = runs[j]
           /\ obs.saved[i] >= 1 => runs' = runs]_vars

\* a record was written twice while the record of another invocation is stored
C28_Witness ==
  \E i, j \in Inv :
     /\ i # j
     /\ obs.saved[i] = 2
     /\ obs.saved[j] >= 1
     /\ runs[i] = sanitizeFirestoreValue(run[i])
     /\ runs[j] = sanitizeFirestoreValue(run[j])
     /\ run[i].result # run[j].result

\* C29: releaseRunnerLock deletes lock:runner only while the key holds the
\* token of the releasing invocation: no release deletes the lock another
\* invocation holds, whatever the interleaving with the expiry of the TTL and
\* with acquisitions in the same or another process.
C29_ReleaseDeletesOwnLockOnly ==
  [][\A i \in Inv :
        (pc[i] = "releaseDel" /\ pc'[i] = "done" /\ redisLock # None)
           => redisLock = i]_vars

\* C30: an invocation that does not get the run lock goes on to save its
\* SKIPPED RunRecord and ends: neither step changes the lock, an adapter's
\* token, an idempotency key, an inflight key, a trade or another run's
\* record; its locals hold nothing but the time of its start (no
\* configuration, bars or trade), and it is not among the invocations that
\* released the lock, evaluated or traded.
C30_LockContentionFrame ==
  [][\A i \in Inv :
        LET failsToAcquire == pc[i] = "acquire" /\ pc'[i] = "saveSkipped"
            savesSkipped == pc[i] = "saveSkipped" /\ pc'[i] # "saveSkipped"
        IN (failsToAcquire \/ savesSkipped) =>
              /\ UNCHANGED <<redisLock, runnerLockToken, idem, inflight, trades>>
              /\ \A j \in Inv \ {i} : runs'[j] = runs[j]
              /\ run'[i].result = "SKIPPED"
              /\ [loc'[i] EXCEPT !.barCloseTime = None] = LocInit
              /\ pc'[i] \in {"saveSkipped", "done", "threw"}
              /\ i \notin obs'.acquired \cup obs'.released \cup obs'.judged
                            \cup obs'.creators \cup obs'.openers \cup obs'.sellers
              /\ pc'[i] = "done" => runs'[i] = sanitizeFirestoreValue(run[i])]_vars

\* an invocation has returned SKIPPED from the lock step while the holder of
\* the lock is past its idempotency check, the lock still in place
C30_Witness ==
  \E i, j \in Inv :
     /\ Returned(i)
     /\ i \notin obs.acquired
     /\ runs[i] = sanitizeFirestoreValue(run[i])
     /\ run[i].result = "SKIPPED"
     /\ redisLock = j
     /\ pc[j] = "fetchBars"
\* C31: the mark price of an exit check is the execution gateway's live price
\* when it supplies one, and otherwise the close of a bar that closed at or
\* before the resolved boundary, never of a bar still forming; an invocation
\* without a mark price ends FAILED and has submitted no sell
C31_MarkPriceOfClosedBar ==
  \A i \in Inv :
    /\ loc[i].markPrice # Undefined /\ loc[i].markPriceBar # Unfetched =>
          loc[i].markPriceBar <= loc[i].barCloseTime
    /\ pc[i] = "saveRun" /\ run[i].summary = "no mark price available" =>
          /\ run[i].result = "FAILED"
          /\ loc[i].markPrice = Undefined
          /\ i \notin obs.sellers

\* C32: after a confirmed entry the stop of the recomputed position is
\* tightenStopForLong(realized entry, signal stop, max loss pct), and its take
\* profit is calculateTakeProfitPrice(realized entry, that stop, r multiple),
\* both as roundTo(., 6) stores them, for every realized entry price (the
\* stored trade still carries the signal's stop until the CONFIRMED write)
C32_FinalStopIsTightenRule ==
  \A i \in Inv :
    pc[i] = "openCommit" =>
      LET resolvedEntryPrice == loc[i].submission.avg_fill_price
          swingStop == trades[loc[i].trade_id].stop_price
          stop == tightenStopForLong(resolvedEntryPrice, swingStop,
                                     loc[i].config.max_loss_per_trade_pct)
      IN /\ loc[i].trade.stop_price = roundTo(stop, 6)
         /\ loc[i].trade.take_profit_price =
              roundTo(calculateTakeProfitPrice(resolvedEntryPrice, stop,
                                               loc[i].config.take_profit_r_multiple), 6)

ConfirmAnswered(i) ==
  pc[i] = "callReturned" =>
    IF loc[i].status.err
      THEN loc[i].result = [confirmed |-> FALSE, error |-> "status.err"]
    ELSE IF loc[i].status.confirmationStatus \in {"confirmed", "finalized"}
      THEN loc[i].result = [confirmed |-> TRUE, error |-> "undefined"]
    ELSE /\ loc[i].result = TimeoutError
         /\ now - loc[i].startedAt > loc[i].args.timeoutMs

\* C34: confirmSignature always ends: it returns confirmed = false with the
\* error as soon as a poll reports a transaction error, confirmed = true as
\* soon as a poll reports confirmed or finalized without an error, and
\* otherwise confirmed = false with a timeout error once the elapsed time
\* exceeds timeoutMs; it never sleeps after a decisive status and never polls
\* forever, provided every status query answers
C34_ConfirmationTerminates ==
  /\ [](\A i \in {1} :
          /\ ConfirmAnswered(i)
          /\ pc[i] = "confirmSleep" =>
                /\ ~loc[i].status.err
                /\ loc[i].status.confirmationStatus \notin {"confirmed", "finalized"})
  /\ <>(pc[1] \in {"callReturned", "callThrew"})

\* the transaction stayed unconfirmed and the 75 s of confirmSwap ran out
C34_Witness ==
  /\ pc[1] = "callReturned"
  /\ loc[1].args.timeoutMs = TX_CONFIRM_TIMEOUT_MS
  /\ loc[1].result = TimeoutError
  /\ loc[1].status.confirmationStatus = "processed"

\* C35: for one bar, whatever the interleaving of the invocations that resolve
\* it (overlaps after the run lock's TTL elapsed included), openPosition is
\* entered at most once, so at most one createTrade and at most one buy swap
\* are issued for the bar's trade id, and no createTrade writes over a stored
\* TradeRecord (the idempotency key does not expire within the horizon)
C35_AtMostOneEntryPerBar ==
  /\ \A b \in Bars :
        /\ obs.opens[b] <= 1
        /\ obs.creates[b] <= 1
        /\ obs.buys[b] <= 1
        /\ Cardinality({i \in obs.openers : loc[i].barCloseTime = b /\ pc[i] \in OpenPcs}) <= 1
  /\ \A w \in obs.writes : w[2] = "CREATED" => w[1] = "NONE"

\* two invocations overlapped on one bar after the lock's TTL elapsed, both
\* evaluated it; one bought, the other was turned away by the key
C35_Witness ==
  \E b \in Bars :
     /\ obs.elapsed # {}
     /\ obs.evals[b] = 2
     /\ obs.creates[b] = 1 /\ obs.buys[b] = 1
     /\ \E i \in Inv : /\ pc[i] = "saveRun"
                        /\ loc[i].barCloseTime = b
                        /\ run[i].result = "SKIPPED_ENTRY"
                        /\ i \notin obs.openers

\* C36: in openPosition and in closePosition the in-flight marker is set and
\* confirmSwap is awaited only after the write that records the submitted
\* swap (the SUBMITTED state with the entry signature, the exit submission
\* with the exit signature) has succeeded: setInflightTx is reached only from
\* that write, resolved, with the record in the store; the marker is set only
\* by setInflightTx; confirmSwap is reached only from setInflightTx; and a
\* rejected write leads to the catch block
C36_RecordBeforeWait ==
  [][\A i \in Inv :
       /\ pc'[i] = "openSetInflight" /\ pc[i] # "openSetInflight" =>
             /\ pc[i] = "openMoveSubmitted"
             /\ faults' = faults
             /\ trades'[loc[i].trade_id].state = "SUBMITTED"
       /\ pc'[i] = "closeSetInflight" /\ pc[i] # "closeSetInflight" =>
             /\ pc[i] = "closeRecord"
             /\ faults' = faults
             /\ trades'[loc[i].trade_id].exit_submission_state = "SUBMITTED"
       /\ i \in inflight' /\ i \notin inflight =>
             pc[i] \in {"openSetInflight", "closeSetInflight"}
       /\ pc'[i] = "openConfirm" /\ pc[i] # "openConfirm" => pc[i] = "openSetInflight"
       /\ pc'[i] = "closeConfirm" /\ pc[i] # "closeConfirm" => pc[i] = "closeSetInflight"
       /\ pc[i] = "openMoveSubmitted" /\ pc'[i] # pc[i] /\ faults' # faults =>
             pc'[i] = "openCatch"
       /\ pc[i] = "closeRecord" /\ pc'[i] # pc[i] /\ faults' # faults =>
             pc'[i] = "closeCatch"
  ]_vars

\* an exit awaiting its confirmation, marker set and exit submission stored,
\* on a trade whose entry went the same way, while an earlier write was
\* rejected
C36_Witness ==
  \E i \in Inv :
     /\ pc[i] = "closeConfirm"
     /\ i \in inflight
     /\ trades[loc[i].trade_id].exit_submission_state = "SUBMITTED"
     /\ obs.buys[loc[i].trade_id] = 1
     /\ faults > 0

\* C37 (as stated): SKIPPED_ENTRY is returned only while no open trade exists.
C37_SkippedEntryWithoutOpenTrade ==
  \A i \in Inv :
     pc[i] = "saveRun" /\ run[i].result = "SKIPPED_ENTRY" => findOpenTrade = None

\* C37 (amended): the exit check is not gated by the entry key. An invocation
\* that holds the lock and read an enabled configuration looks the open trade
\* up before it reads the bar's key: when a CONFIRMED trade is stored at the
\* lookup it goes to the take-profit/stop check, marked bar or not, and ends
\* HOLD, CLOSED or FAILED; the key is read only when the lookup found no open
\* trade, and SKIPPED_ENTRY is returned only from there, by an invocation whose
\* lookup found none; while the run lock has serialized the invocations no
\* open trade is stored when SKIPPED_ENTRY is returned
C37_ExitCheckNotGated ==
  [][\A i \in Inv :
       /\ pc[i] = "findOpenTrade" /\ pc'[i] # pc[i] /\ faults' = faults =>
             pc'[i] = IF findOpenTrade # None THEN "markPrice" ELSE "hasEntryAttempt"
       /\ pc[i] = "markPrice" /\ pc'[i] = "saveRun" =>
             run'[i].result \in {"HOLD", "FAILED"}
       /\ pc[i] \in ClosePcs /\ pc'[i] = "saveRun" =>
             run'[i].result \in {"CLOSED", "FAILED"}
       /\ pc'[i] = "hasEntryAttempt" /\ pc[i] # "hasEntryAttempt" =>
             pc[i] = "findOpenTrade" /\ findOpenTrade = None
       /\ pc'[i] = "saveRun" /\ pc[i] # "saveRun" /\ run'[i].result = "SKIPPED_ENTRY" =>
             /\ pc[i] \in {"hasEntryAttempt", "markEntryAttempt"}
             /\ run'[i].trade_id = None
             /\ obs.elapsed = {} => findOpenTrade = None
  ]_vars

\* an invocation dispatched on a bar whose key was already marked found the
\* open trade and ended its exit check with HOLD
C37_Witness ==
  \E i \in obs.markedAtStart :
     /\ pc[i] = "saveRun"
     /\ loc[i].barCloseTime \in idem
     /\ loc[i].trade.state = "CONFIRMED"
     /\ loc[i].markPrice # Undefined
     /\ run[i].result = "HOLD"

\* C38: the bar's key is set only by the markEntryAttempt step of an
\* invocation whose strategy evaluation has returned a decision, so every
\* marked bar has been evaluated; an invocation that ends before the
\* evaluation (configuration disabled, no mark price, no closed bars, bar
\* misalignment, daily cap, an exception) leaves the keys as they were; and an
\* invocation that reads an unset key goes on to fetch the bars instead of
\* returning SKIPPED_ENTRY
C38_KeyMarkedAfterEvaluation ==
  [][/\ idem' # idem =>
          \E i \in Inv : /\ pc[i] = "markEntryAttempt" /\ pc'[i] # pc[i]
                          /\ Evaluated(i)
                          /\ idem' = idem \cup {loc[i].barCloseTime}
     /\ \A b \in idem' : obs'.evals[b] >= 1
     /\ \A i \in Inv :
          /\ pc'[i] = "saveRun" /\ pc[i] # "saveRun" /\ ~Evaluated(i) => idem' = idem
          /\ pc[i] = "hasEntryAttempt" /\ pc'[i] # pc[i] /\ faults' = faults
               /\ loc[i].barCloseTime \notin idem => pc'[i] = "fetchBars"
  ]_vars

\* an invocation ended FAILED on a misaligned window of bar 1 and left the key
\* unset; a later invocation for bar 1 has evaluated the entry
C38_Witness ==
  /\ now = 1
  /\ \E i \in Inv :
       /\ pc[i] = "done" /\ obs.saved[i] = 1
       /\ runs[i].summary = "market bar close does not match"
  /\ \E j \in Inv :
       /\ pc[j] = "markEntryAttempt" /\ Evaluated(j)
       /\ j \notin obs.markedAtStart
       /\ loc[j].barCloseTime = 1
       /\ obs.evals[1] = 1

\* C39: in the trades collection a document has position status CLOSED and a
\* close reason exactly when its stored state is CLOSED; a document stored as
\* CONFIRMED or FAILED has position status OPEN and no close reason, also
\* after an exit that was not confirmed and after a CLOSED write that failed
C39_CloseDataMatchesState ==
  \A t \in TradeIds :
     /\ trades[t].state = "CLOSED" =>
           trades[t].status = "CLOSED" /\ trades[t].close_reason # "NONE"
     /\ trades[t].state \in {"CREATED", "SUBMITTED", "CONFIRMED", "FAILED"} =>
           trades[t].status = "OPEN" /\ trades[t].close_reason = "NONE"

\* C40: the run lock is not leaked for good: whenever invocation 1 holds
\* lock:runner, also when it then crashes or stalls before releasing, the key
\* goes away and an invocation dispatched later acquires it and stands past
\* the lock step, given that the scheduler keeps dispatching invocations
C40_LockNotLeaked ==
  [](redisLock = 1 => <>(\E j \in Later : redisLock = j /\ pc[j] = "getConfig"))

\* invocation 1 still stands where it acquired the lock, its TTL has run out
\* and a later invocation holds the lock
C40_Witness ==
  /\ pc[1] = "getConfig"
  /\ 1 \in obs.acquired
  /\ 1 \in obs.elapsed
  /\ \E j \in Later : redisLock = j /\ pc[j] = "getConfig"

====
